---- MODULE Spec2Model ----
(***************************************************************************)
(* State-machine model of the Ethos retrieval bot's resilience layer       *)
(* (src/src/retry_handler.py), vector index (src/src/vector_store.py),     *)
(* answer orchestrator (src/src/rag_engine.py), message processor          *)
(* (src/src/message_processor.py, src/src/utils.py) and rate limiter       *)
(* (src/src/slack_bot.py).                                                 *)
(*                                                                         *)
(* Each component has its own specification (SpecBreaker, SpecWorkers,     *)
(* SpecRetry, SpecSlack, SpecDelay, SpecSearch, SpecStore, SpecAsk,        *)
(* SpecConfidence, SpecRate, SpecProc, SpecPipeline); the variables of the *)
(* other components keep their initial values under it.                    *)
(***************************************************************************)
EXTENDS Integers, Sequences, FiniteSets, TLC

VARIABLES
    \* CircuitBreaker instance (retry_handler.py:255-322)
    failure_threshold, recovery_timeout, expected_exception,
    state, failure_count, last_failure_time,
    now,            \* the clock time.time() reads
    cb_calls,       \* number of CircuitBreaker.call invocations so far
    cb_invoked,     \* number of times the wrapped function was invoked
    cb_last,        \* what the last CircuitBreaker.call did
    \* retry_on_error wrapper (retry_handler.py:93-147)
    max_retries, exceptions, has_on_retry,
    r_pc, attempt, last_exception, r_log, r_outcome,
    \* VectorStore (vector_store.py:16-238)
    index, documents, metadata, vs_last,
    disk,           \* the two artifacts under the index path, as last written
    vs_built,       \* a create_index or load_index call has returned normally
    \* RAGEngine.ask (rag_engine.py:121-253)
    a_pc, a_args, a_results, a_attempt, a_outcomes, a_sleeps, a_ret,
    \* MessageProcessor.create_documents (message_processor.py:96-186)
    p_pc, p_messages, p_i, thread_groups, standalone_messages, p_documents,
    \* Workers sharing the CircuitBreaker, one call each at a time
    w_pc,           \* where each worker is in CircuitBreaker.call
    w_loaded,       \* the failure_count each worker read at line 313
    w_recorded,     \* monitored failures recorded since the last reset
    \* One call of a function that keeps no state of its own
    f_in,           \* the function called and its arguments
    f_out,          \* what it returned, once it has
    \* The rate limiter of slack_bot.py (lines 24-27, 61-88)
    user_requests,  \* user id -> times of the requests still on record
    rl_now,         \* what datetime.now() returns, in seconds
    granted         \* user id -> times of all the calls that were allowed

cbVars == <<failure_threshold, recovery_timeout, expected_exception, state,
            failure_count, last_failure_time, now, cb_calls, cb_invoked, cb_last>>
retryVars == <<max_retries, exceptions, has_on_retry, r_pc, attempt,
               last_exception, r_log, r_outcome>>
storeVars == <<index, documents, metadata>>
searchVars == <<index, documents, metadata, vs_last, disk, vs_built>>
askVars == <<a_pc, a_args, a_results, a_attempt, a_outcomes, a_sleeps, a_ret>>
procVars == <<p_pc, p_messages, p_i, thread_groups, standalone_messages,
              p_documents>>
workerVars == <<w_pc, w_loaded, w_recorded>>
rateVars == <<user_requests, rl_now, granted>>
fnVars == <<f_in, f_out, rateVars>>
vars == <<cbVars, retryVars, searchVars, askVars, procVars, workerVars, fnVars>>

\* Python's None
None == "None"

\* The rate limiter of slack_bot.py is not in use.
IdleRate ==
    /\ user_requests = <<>>
    /\ rl_now = 0
    /\ granted = <<>>

Min(a, b) == IF a <= b THEN a ELSE b
Max(a, b) == IF a >= b THEN a ELSE b

(***************************************************************************)
(* Bounds of the model                                                     *)
(***************************************************************************)
MaxThreshold == 2      \* failure_threshold ranges over 1..MaxThreshold
MaxTimeout == 2        \* recovery_timeout ranges over 1..MaxTimeout (ticks)
MaxTime == 5           \* the clock stops advancing at MaxTime
MaxCalls == 5          \* CircuitBreaker.call invocations per behaviour
MaxRetries == 3        \* RetryConfig.max_retries ranges over 0..MaxRetries
MaxK == 2              \* search is asked for k in 1..MaxK results

(***************************************************************************)
(* Exceptions: classes, and the instances a call raises                    *)
(***************************************************************************)
\* The classes an instance of `kind` is an instance of (itself and its bases).
Supers(kind) ==
    CASE kind = "ValueError" -> {"ValueError", "Exception", "BaseException"}
      [] kind = "KeyError" -> {"KeyError", "LookupError", "Exception", "BaseException"}
      [] kind = "RuntimeError" -> {"RuntimeError", "Exception", "BaseException"}
      [] kind = "TypeError" -> {"TypeError", "Exception", "BaseException"}
      [] kind = "AttributeError" -> {"AttributeError", "Exception", "BaseException"}
      [] kind = "KeyboardInterrupt" -> {"KeyboardInterrupt", "BaseException"}
      [] kind = "OSError" -> {"OSError", "Exception", "BaseException"}
      [] kind = "ConnectionError" ->
            {"ConnectionError", "OSError", "Exception", "BaseException"}
      [] kind = "TimeoutError" ->
            {"TimeoutError", "OSError", "Exception", "BaseException"}
      [] kind = "SlackApiError" ->
            {"SlackApiError", "SlackClientError", "Exception", "BaseException"}
      [] kind = "APIError" -> {"APIError", "Exception", "BaseException"}
      [] kind = "APIConnectionError" ->
            {"APIConnectionError", "APIError", "Exception", "BaseException"}
      [] kind = "APITimeoutError" ->
            {"APITimeoutError", "APIConnectionError", "APIError", "Exception",
             "BaseException"}
      [] kind = "RateLimitError" ->
            {"RateLimitError", "APIStatusError", "APIError", "Exception",
             "BaseException"}
      [] OTHER -> {kind}

\* `except classes as e` matches an instance of `kind`.
IsInstance(kind, classes) == Supers(kind) \cap classes # {}

\* An exception instance: its class and the invocation that raised it.
Exc(kind, id) == [kind |-> kind, id |-> id]
NoExc == Exc(None, 0)

(***************************************************************************)
(* CircuitBreaker                                                          *)
(***************************************************************************)
\* CircuitBreaker.__init__: closed, no failures, no failure time.
NewBreaker(threshold, timeout, expected) ==
    /\ failure_threshold = threshold
    /\ recovery_timeout = timeout
    /\ expected_exception = expected
    /\ state = "closed"
    /\ failure_count = 0
    /\ last_failure_time = None
    /\ now = 0
    /\ cb_calls = 0
    /\ cb_invoked = 0
    /\ cb_last = [kind |-> "none", entered |-> "closed", exc |-> None]

\* The expected_exception classes a breaker is built with: the default,
\* and the class the tests use for a failing dependency.
MonitoredClasses == {"Exception", "ConnectionError"}

InitBreaker ==
    \E threshold \in 1..MaxThreshold, timeout \in 1..MaxTimeout,
       expected \in MonitoredClasses :
        NewBreaker(threshold, timeout, expected)

\* A breaker built with the constructor's defaults, never called.
IdleBreaker == NewBreaker(5, 60, "Exception")

\* Time passes between calls.
Tick ==
    /\ now < MaxTime
    /\ now' = now + 1
    /\ UNCHANGED <<failure_threshold, recovery_timeout, expected_exception,
                   state, failure_count, last_failure_time, cb_calls,
                   cb_invoked, cb_last>>
    /\ UNCHANGED <<retryVars, searchVars, askVars, procVars, workerVars, fnVars>>

\* Lines 294-299: the state the try block is entered in, or "rejected".
Admit ==
    IF state = "open"
    THEN IF now - last_failure_time >= recovery_timeout
         THEN "half_open"
         ELSE "rejected"
    ELSE state

\* OnSuccess resetting the count after every success, closed state included.
OnSuccessResetsAlways(entered) ==
    /\ state' = IF entered = "half_open" THEN "closed" ELSE entered
    /\ failure_count' = 0
    /\ UNCHANGED last_failure_time

\* OnSuccess with the reset of line 307 forgotten.
OnSuccessKeepsCount(entered) ==
    /\ state' = IF entered = "half_open" THEN "closed" ELSE entered
    /\ UNCHANGED <<failure_count, last_failure_time>>

\* Lines 301-310: the wrapped function returned.
OnSuccess(entered) ==
    /\ state' = IF entered = "half_open" THEN "closed" ELSE entered
    /\ failure_count' = IF entered = "half_open" THEN 0 ELSE failure_count
    /\ UNCHANGED last_failure_time

\* OnMonitoredFailure opening one failure late (> for >= at line 316).
OnMonitoredFailureLate(entered, t) ==
    /\ failure_count' = failure_count + 1
    /\ last_failure_time' = t
    /\ state' = IF failure_count + 1 > failure_threshold THEN "open" ELSE entered

\* Lines 312-322: the wrapped function raised expected_exception at time t.
OnMonitoredFailure(entered, t) ==
    /\ failure_count' = failure_count + 1
    /\ last_failure_time' = t
    /\ state' = IF failure_count + 1 >= failure_threshold THEN "open" ELSE entered

\* Any other exception matches no except clause and propagates: only the
\* assignment of line 296, if it ran, has happened.
OnOtherFailure(entered) ==
    /\ state' = entered
    /\ UNCHANGED <<failure_count, last_failure_time>>

\* How the except clauses of CircuitBreaker.call see the way func ended:
\* "ok", or an exception that `except self.expected_exception` (line 312)
\* catches ("monitored") or does not catch ("other"). `out` is one of these
\* three, or the class of the exception func raised.
Seen(out) ==
    IF out \in {"ok", "monitored", "other"} THEN out
    ELSE IF IsInstance(out, {expected_exception}) THEN "monitored"
    ELSE "other"

\* CircuitBreaker.call(func): one whole call. `out` is how func ends and
\* `d` how long it runs (the clock is read again at line 314).
Call(out, d) ==
    /\ cb_calls < MaxCalls
    /\ now + d <= MaxTime
    /\ cb_calls' = cb_calls + 1
    /\ UNCHANGED <<failure_threshold, recovery_timeout, expected_exception>>
    /\ UNCHANGED <<retryVars, searchVars, askVars, procVars, workerVars, fnVars>>
    /\ IF Admit = "rejected"
       THEN /\ cb_last' = [kind |-> "rejected", entered |-> "open", exc |-> None]
            /\ UNCHANGED <<state, failure_count, last_failure_time, now, cb_invoked>>
       ELSE /\ cb_invoked' = cb_invoked + 1
            /\ now' = now + d
            /\ cb_last' = [kind |-> Seen(out), entered |-> Admit, exc |-> out]
            /\ CASE Seen(out) = "ok" -> OnSuccess(Admit)
                 [] Seen(out) = "monitored" -> OnMonitoredFailure(Admit, now + d)
                 [] OTHER -> OnOtherFailure(Admit)

CallSucceeds == \E d \in 0..1 : Call("ok", d)
CallFailsMonitored == \E d \in 0..1 : Call("monitored", d)
CallFailsOther == \E d \in 0..1 : Call("other", d)

\* func is with_timeout(seconds)(operation) and the alarm goes off: the
\* handler of lines 340-341 raises TimeoutError inside func.
CallTimesOut == Call("TimeoutError", 1)

NextBreaker ==
    \/ Tick
    \/ CallSucceeds
    \/ CallFailsMonitored
    \/ CallFailsOther
    \/ CallTimesOut

(***************************************************************************)
(* Properties of CircuitBreaker (checked under SpecBreaker)                *)
(***************************************************************************)
\* A step that is one CircuitBreaker.call.
CallStep == cb_calls' = cb_calls + 1

\* C1: the breaker starts closed; a monitored failure that brings
\* failure_count to failure_threshold leaves it open; and every call made
\* with failure_count at the threshold while less than recovery_timeout has
\* elapsed since the last recorded failure is rejected without invoking the
\* wrapped function and without changing the breaker.
C1_OpenFailsFast ==
    /\ state = "closed"
    /\ [][CallStep =>
            /\ (cb_last'.kind = "monitored" /\ failure_count' >= failure_threshold
                   => state' = "open")
            /\ (failure_count >= failure_threshold
                /\ now - last_failure_time < recovery_timeout
                   => /\ cb_last'.kind = "rejected"
                      /\ cb_invoked' = cb_invoked
                      /\ UNCHANGED <<state, failure_count, last_failure_time>>)]_vars

\* A call was rejected by an open breaker inside the recovery window.
C1_Witness ==
    /\ cb_last.kind = "rejected"
    /\ state = "open"
    /\ failure_count >= failure_threshold
    /\ now - last_failure_time < recovery_timeout
    /\ cb_invoked < cb_calls

\* C2: whatever the outcome of a call admitted as the half-open trial, the
\* breaker is no longer half_open when that call has ended.
C2_TrialLeavesHalfOpen ==
    cb_last.entered = "half_open" => state # "half_open"

\* C3: a successful half-open trial sets failure_count to 0 and closes the
\* breaker; a trial failing with the monitored kind reopens it and sets
\* last_failure_time to the time of that failure, and the call after it is
\* admitted only when recovery_timeout has elapsed since that time.
C3_TrialOutcome ==
    [][CallStep =>
        /\ (cb_last'.entered = "half_open" /\ cb_last'.kind = "ok"
               => failure_count' = 0 /\ state' = "closed")
        /\ (cb_last'.entered = "half_open" /\ cb_last'.kind = "monitored"
               => state' = "open" /\ last_failure_time' = now')
        /\ (cb_last.entered = "half_open" /\ cb_last.kind = "monitored"
            /\ cb_last'.kind # "rejected"
               => /\ cb_last'.entered = "half_open"
                  /\ now - last_failure_time >= recovery_timeout)]_vars

\* A half-open trial failed and a later trial, after a new wait, succeeded.
C3_Witness ==
    /\ cb_last.entered = "half_open"
    /\ cb_last.kind = "ok"
    /\ state = "closed"
    /\ failure_count = 0
    /\ cb_calls >= failure_threshold + 2
    /\ cb_invoked = cb_calls
    /\ now >= 2 * recovery_timeout

\* C28: a successful call made in the closed state leaves failure_count,
\* last_failure_time and state unchanged; failure_count decreases only on
\* a successful half-open trial, and then to 0; so the breaker is never
\* closed with failure_threshold failures counted, whatever successful
\* calls came between them.
C28_ClosedSuccessKeepsCount ==
    /\ [](state = "closed" => failure_count < failure_threshold)
    /\ [][CallStep =>
            /\ (cb_last'.entered = "closed" /\ cb_last'.kind = "ok"
                   => UNCHANGED <<failure_count, last_failure_time, state>>)
            /\ (failure_count' < failure_count
                   => /\ cb_last'.entered = "half_open"
                      /\ cb_last'.kind = "ok"
                      /\ failure_count' = 0)]_vars

\* A call succeeded in the closed state with a failure on the count.
C28_Witness ==
    /\ cb_last.kind = "ok"
    /\ cb_last.entered = "closed"
    /\ state = "closed"
    /\ failure_count = 1
    /\ failure_threshold = 2
    /\ cb_calls = 2

\* C20: a call through the breaker that is abandoned by the TimeoutError of
\* with_timeout leaves failure_count, last_failure_time and state as they
\* were before the call.
C20_TimeoutNotCounted ==
    [][(CallStep /\ cb_last'.exc = "TimeoutError") =>
          UNCHANGED <<failure_count, last_failure_time, state>>]_vars

(***************************************************************************)
(* CircuitBreaker.call run by several workers on one breaker: the method   *)
(* takes no lock, so the workers interleave between its statements, and    *)
(* `self.failure_count += 1` is a read followed by a write                 *)
(***************************************************************************)
MaxWorkers == 2
Workers == 1..MaxWorkers

InitWorkers ==
    /\ w_pc = [w \in Workers |-> "idle"]
    /\ w_loaded = [w \in Workers |-> 0]
    /\ w_recorded = 0

\* Lines 294-299: the test of the state and of the time elapsed.
WBegin(w) ==
    /\ w_pc[w] = "idle"
    /\ cb_calls < MaxCalls
    /\ cb_calls' = cb_calls + 1
    /\ w_pc' = [w_pc EXCEPT ![w] =
                   IF state # "open" THEN "run"
                   ELSE IF now - last_failure_time >= recovery_timeout
                   THEN "half_open"
                   ELSE "idle"]
    /\ UNCHANGED <<failure_threshold, recovery_timeout, expected_exception, state,
                   failure_count, last_failure_time, now, cb_invoked, cb_last>>
    /\ UNCHANGED <<w_loaded, w_recorded>>
    /\ UNCHANGED <<retryVars, searchVars, askVars, procVars, fnVars>>

\* Line 296.
WHalfOpen(w) ==
    /\ w_pc[w] = "half_open"
    /\ state' = "half_open"
    /\ w_pc' = [w_pc EXCEPT ![w] = "run"]
    /\ UNCHANGED <<failure_threshold, recovery_timeout, expected_exception,
                   failure_count, last_failure_time, now, cb_calls, cb_invoked,
                   cb_last>>
    /\ UNCHANGED <<w_loaded, w_recorded>>
    /\ UNCHANGED <<retryVars, searchVars, askVars, procVars, fnVars>>

\* Line 302: func runs and ends as `out`.
WRun(w, out) ==
    /\ w_pc[w] = "run"
    /\ cb_invoked' = cb_invoked + 1
    /\ w_pc' = [w_pc EXCEPT ![w] =
                   CASE Seen(out) = "ok" -> "success"
                     [] Seen(out) = "monitored" -> "load"
                     [] OTHER -> "idle"]
    /\ UNCHANGED <<failure_threshold, recovery_timeout, expected_exception, state,
                   failure_count, last_failure_time, now, cb_calls, cb_last>>
    /\ UNCHANGED <<w_loaded, w_recorded>>
    /\ UNCHANGED <<retryVars, searchVars, askVars, procVars, fnVars>>

\* Lines 305-310.
WSuccess(w) ==
    /\ w_pc[w] = "success"
    /\ w_pc' = [w_pc EXCEPT ![w] = "idle"]
    /\ IF state = "half_open"
       THEN state' = "closed" /\ failure_count' = 0 /\ w_recorded' = 0
       ELSE UNCHANGED <<state, failure_count, w_recorded>>
    /\ UNCHANGED <<failure_threshold, recovery_timeout, expected_exception,
                   last_failure_time, now, cb_calls, cb_invoked, cb_last>>
    /\ UNCHANGED w_loaded
    /\ UNCHANGED <<retryVars, searchVars, askVars, procVars, fnVars>>

\* Line 313, first half: the value of self.failure_count is read.
WLoad(w) ==
    /\ w_pc[w] = "load"
    /\ w_loaded' = [w_loaded EXCEPT ![w] = failure_count]
    /\ w_pc' = [w_pc EXCEPT ![w] = "store"]
    /\ UNCHANGED <<cbVars, w_recorded>>
    /\ UNCHANGED <<retryVars, searchVars, askVars, procVars, fnVars>>

\* Line 313, second half: the value read, plus one, is written back.
WStore(w) ==
    /\ w_pc[w] = "store"
    /\ failure_count' = w_loaded[w] + 1
    /\ w_recorded' = w_recorded + 1
    /\ w_pc' = [w_pc EXCEPT ![w] = "trip"]
    /\ UNCHANGED <<failure_threshold, recovery_timeout, expected_exception, state,
                   last_failure_time, now, cb_calls, cb_invoked, cb_last>>
    /\ UNCHANGED w_loaded
    /\ UNCHANGED <<retryVars, searchVars, askVars, procVars, fnVars>>

\* Lines 314-322.
WTrip(w) ==
    /\ w_pc[w] = "trip"
    /\ last_failure_time' = now
    /\ state' = IF failure_count >= failure_threshold THEN "open" ELSE state
    /\ w_pc' = [w_pc EXCEPT ![w] = "idle"]
    /\ UNCHANGED <<failure_threshold, recovery_timeout, expected_exception,
                   failure_count, now, cb_calls, cb_invoked, cb_last>>
    /\ UNCHANGED <<w_loaded, w_recorded>>
    /\ UNCHANGED <<retryVars, searchVars, askVars, procVars, fnVars>>

WBeginSome == \E w \in Workers : WBegin(w)
WHalfOpenSome == \E w \in Workers : WHalfOpen(w)
WRunSome == \E w \in Workers, out \in {"ok", "monitored", "other"} : WRun(w, out)
WSuccessSome == \E w \in Workers : WSuccess(w)
WLoadSome == \E w \in Workers : WLoad(w)
WStoreSome == \E w \in Workers : WStore(w)
WTripSome == \E w \in Workers : WTrip(w)

NextWorkers ==
    \/ Tick
    \/ WBeginSome
    \/ WHalfOpenSome
    \/ WRunSome
    \/ WSuccessSome
    \/ WLoadSome
    \/ WStoreSome
    \/ WTripSome

\* C19: under every interleaving of the workers' calls no monitored failure
\* is lost: whenever no call is in progress, failure_count is the number
\* of monitored failures recorded since the last reset, and the breaker is
\* not closed once that number has reached failure_threshold.
C19_NoLostFailure ==
    (\A w \in DOMAIN w_pc : w_pc[w] = "idle") =>
        /\ failure_count = w_recorded
        /\ w_recorded >= failure_threshold => state # "closed"

(***************************************************************************)
(* retry_on_error                                                          *)
(***************************************************************************)
\* What the wrapped function may raise in the model.
RaisedKinds == {"ValueError", "KeyError", "RuntimeError", "KeyboardInterrupt"}

\* The `exceptions` tuples the decorator is configured with.
AllowLists == {{"ValueError", "KeyError"}, {"RuntimeError"}, {"Exception"}}

Event(ev, exc, n) == [ev |-> ev, exc |-> exc, attempt |-> n]

\* Number of invocations of the wrapped function so far.
RECURSIVE CountEv(_, _)
CountEv(log, ev) ==
    IF log = <<>> THEN 0
    ELSE (IF Head(log).ev = ev THEN 1 ELSE 0) + CountEv(Tail(log), ev)

\* Line 121 written as a bare `except:`, which catches everything.
CatchesAll(kind) == TRUE

\* Line 121: `except exceptions as e` catches an instance of `kind`.
Catches(kind) == IsInstance(kind, exceptions)

\* Line 124 off by one: the last attempt is followed by a sleep and a retry.
RetriesLeftOffByOne == attempt < max_retries

\* Line 124: this was not the last attempt of the budget.
RetriesLeft == attempt < max_retries - 1

\* The decorated function is not running; its configuration is fixed.
NewWrapper(m, allow, observer) ==
    /\ max_retries = m
    /\ exceptions = allow
    /\ has_on_retry = observer
    /\ r_pc = "start"
    /\ attempt = 0
    /\ last_exception = NoExc
    /\ r_log = <<>>
    /\ r_outcome = [kind |-> "none", value |-> 0, exc |-> NoExc]

InitRetry ==
    \E m \in 0..MaxRetries, allow \in AllowLists, observer \in BOOLEAN :
        NewWrapper(m, allow, observer)

\* retry_on_error() with its defaults (OPENAI_RETRY_CONFIG), never called.
IdleRetry == NewWrapper(3, {"Exception"}, FALSE)

\* Lines 115-117: last_exception = None, and the loop is entered or skipped.
WrapperStart ==
    /\ r_pc = "start"
    /\ UNCHANGED <<cbVars, searchVars, askVars, procVars, workerVars, fnVars>>
    /\ last_exception' = NoExc
    /\ attempt' = 0
    /\ r_pc' = IF 0 < max_retries THEN "try" ELSE "exhausted"
    /\ UNCHANGED <<max_retries, exceptions, has_on_retry, r_log, r_outcome>>

\* Line 119: func returns; the wrapper returns its value.
TryReturns ==
    /\ r_pc = "try"
    /\ UNCHANGED <<cbVars, searchVars, askVars, procVars, workerVars, fnVars>>
    /\ r_log' = Append(r_log, Event("call", NoExc, attempt))
    /\ r_outcome' = [kind |-> "returned", value |-> CountEv(r_log, "call") + 1,
                     exc |-> NoExc]
    /\ r_pc' = "done"
    /\ UNCHANGED <<max_retries, exceptions, has_on_retry, attempt, last_exception>>

\* Lines 119-141: func raises an instance of `kind`.
TryRaises(kind) ==
    LET e == Exc(kind, CountEv(r_log, "call") + 1) IN
    /\ r_pc = "try"
    /\ UNCHANGED <<cbVars, searchVars, askVars, procVars, workerVars, fnVars>>
    /\ r_log' = Append(r_log, Event("call", e, attempt))
    /\ IF Catches(kind)
       THEN /\ last_exception' = e
            /\ IF RetriesLeft
               THEN /\ r_pc' = "on_retry"
                    /\ UNCHANGED attempt
               ELSE /\ attempt' = attempt + 1
                    /\ r_pc' = "exhausted"
            /\ UNCHANGED r_outcome
       ELSE /\ r_outcome' = [kind |-> "raised", value |-> 0, exc |-> e]
            /\ r_pc' = "done"
            /\ UNCHANGED <<attempt, last_exception>>
    /\ UNCHANGED <<max_retries, exceptions, has_on_retry>>

TryRaisesSome == \E kind \in RaisedKinds : TryRaises(kind)

\* OnRetry passing the 1-based attempt number of the log message of line 128.
OnRetryOneBased ==
    /\ r_pc = "on_retry"
    /\ UNCHANGED <<cbVars, searchVars, askVars, procVars, workerVars, fnVars>>
    /\ r_log' = IF has_on_retry
                THEN Append(r_log, Event("on_retry", last_exception, attempt + 1))
                ELSE r_log
    /\ r_pc' = "sleep"
    /\ UNCHANGED <<max_retries, exceptions, has_on_retry, attempt,
                   last_exception, r_outcome>>

\* Lines 133-134: the observer, when there is one, is told before the sleep.
OnRetry ==
    /\ r_pc = "on_retry"
    /\ UNCHANGED <<cbVars, searchVars, askVars, procVars, workerVars, fnVars>>
    /\ r_log' = IF has_on_retry
                THEN Append(r_log, Event("on_retry", last_exception, attempt))
                ELSE r_log
    /\ r_pc' = "sleep"
    /\ UNCHANGED <<max_retries, exceptions, has_on_retry, attempt,
                   last_exception, r_outcome>>

\* Line 136, then the next iteration of the loop.
Sleep ==
    /\ r_pc = "sleep"
    /\ UNCHANGED <<cbVars, searchVars, askVars, procVars, workerVars, fnVars>>
    /\ r_log' = Append(r_log, Event("sleep", NoExc, attempt))
    /\ attempt' = attempt + 1
    /\ r_pc' = "try"
    /\ UNCHANGED <<max_retries, exceptions, has_on_retry, last_exception, r_outcome>>

\* Line 144: raise last_exception; raising None is a TypeError.
RaiseLast ==
    /\ r_pc = "exhausted"
    /\ UNCHANGED <<cbVars, searchVars, askVars, procVars, workerVars, fnVars>>
    /\ r_outcome' = [kind |-> "raised", value |-> 0,
                     exc |-> IF last_exception = NoExc
                             THEN Exc("TypeError", 0)
                             ELSE last_exception]
    /\ r_pc' = "done"
    /\ UNCHANGED <<max_retries, exceptions, has_on_retry, attempt,
                   last_exception, r_log>>

NextRetry ==
    \/ WrapperStart
    \/ TryReturns
    \/ TryRaisesSome
    \/ OnRetry
    \/ Sleep
    \/ RaiseLast

(***************************************************************************)
(* Properties of retry_on_error (checked under SpecRetry)                  *)
(***************************************************************************)
\* The invocations of the wrapped function, in order, each with what it raised.
Invocations == SelectSeq(r_log, LAMBDA e : e.ev = "call")

AllowListed(e) == e.exc # NoExc /\ IsInstance(e.exc.kind, exceptions)

\* The function failed with allow-listed exceptions f times and then returned.
FailsThenSucceeds(f) ==
    /\ Len(Invocations) = f + 1
    /\ Invocations[f + 1].exc = NoExc
    /\ \A i \in 1..f : AllowListed(Invocations[i])

\* C4: when the function raises allow-listed exceptions on its first f calls
\* (f < max_retries) and then succeeds, the wrapper returns the value of that
\* call, has invoked the function exactly f+1 times, and has called the
\* observer exactly f times, with failure i and attempt index i for
\* i = 0..f-1, each time right before the sleep that precedes the next attempt.
C4_FailThenSucceed ==
    \A f \in 0..MaxRetries :
        (has_on_retry /\ f < max_retries /\ FailsThenSucceeds(f)) =>
            /\ r_pc = "done"
            /\ r_outcome.kind = "returned"
            /\ r_outcome.value = f + 1
            /\ CountEv(r_log, "call") = f + 1
            /\ CountEv(r_log, "on_retry") = f
            /\ Len(r_log) = 3 * f + 1
            /\ \A i \in 0..(f - 1) :
                  /\ r_log[3 * i + 1].ev = "call"
                  /\ r_log[3 * i + 2] =
                        Event("on_retry", r_log[3 * i + 1].exc, i)
                  /\ r_log[3 * i + 3] = Event("sleep", NoExc, i)

\* Two failures, then success, under max_retries = 3, with an observer.
C4_Witness ==
    /\ has_on_retry
    /\ max_retries = 3
    /\ FailsThenSucceeds(2)
    /\ r_outcome.kind = "returned"
    /\ CountEv(r_log, "on_retry") = 2

\* C5: an exception of a kind outside the allow-list is propagated on the
\* occurrence that raised it: the invocation that raised it is the last
\* thing the wrapper did (no observer call, no sleep, no further
\* invocation) and the wrapper ends by raising that same exception.
C5_NotAllowListedPropagates ==
    \A i \in DOMAIN r_log :
        (r_log[i].ev = "call" /\ r_log[i].exc # NoExc /\ ~AllowListed(r_log[i])) =>
            /\ i = Len(r_log)
            /\ r_pc = "done"
            /\ r_outcome.kind = "raised"
            /\ r_outcome.exc = r_log[i].exc

\* A non-allow-listed failure after an allow-listed one was retried.
C5_Witness ==
    /\ Len(Invocations) = 2
    /\ AllowListed(Invocations[1])
    /\ Invocations[2].exc # NoExc
    /\ ~AllowListed(Invocations[2])
    /\ r_outcome.kind = "raised"
    /\ r_outcome.exc = Invocations[2].exc

\* C6: with max_retries = m >= 1, when every attempt has failed with an
\* allow-listed exception the wrapper has invoked the function exactly m
\* times, has slept (and called the observer, if any) exactly m-1 times,
\* never after the last attempt, and raises the last attempt's failure.
C6_Exhausted ==
    (/\ r_pc = "done"
     /\ max_retries >= 1
     /\ \A i \in DOMAIN Invocations : AllowListed(Invocations[i])) =>
        /\ Len(Invocations) = max_retries
        /\ CountEv(r_log, "sleep") = max_retries - 1
        /\ CountEv(r_log, "on_retry") = IF has_on_retry THEN max_retries - 1 ELSE 0
        /\ r_log[Len(r_log)].ev = "call"
        /\ r_outcome.kind = "raised"
        /\ r_outcome.exc = Invocations[max_retries].exc

\* Three allow-listed failures exhausted a budget of three.
C6_Witness ==
    /\ r_pc = "done"
    /\ max_retries = 3
    /\ has_on_retry
    /\ Len(Invocations) = 3
    /\ \A i \in 1..3 : AllowListed(Invocations[i])
    /\ r_outcome.kind = "raised"
    /\ r_outcome.exc = Invocations[3].exc
    /\ CountEv(r_log, "sleep") = 2

\* C30: for every max_retries, 0 included, a call of the wrapper that has
\* ended has invoked the wrapped function at least once and at most
\* max(1, max_retries) times, and has returned the value of an invocation
\* or raised an exception that an invocation raised.
C30_InvokesAndRelays ==
    r_pc = "done" =>
        /\ Len(Invocations) >= 1
        /\ Len(Invocations) <= Max(1, max_retries)
        /\ r_outcome.kind \in {"returned", "raised"}
        /\ r_outcome.kind = "returned" =>
              \E i \in DOMAIN Invocations :
                  Invocations[i].exc = NoExc /\ r_outcome.value = i
        /\ r_outcome.kind = "raised" =>
              \E i \in DOMAIN Invocations : Invocations[i].exc = r_outcome.exc

(***************************************************************************)
(* calculate_delay. Delays are in tenths of a second in a RetryConfig and  *)
(* in thousandths in the result, so that the product with the jitter       *)
(* factor (0.5 + random.random(), in hundredths) is a whole number         *)
(***************************************************************************)
RECURSIVE Pow(_, _)
Pow(b, n) == IF n = 0 THEN 1 ELSE b * Pow(b, n - 1)

\* RetryConfig(...), lines 16-38 (max_retries plays no part in the delay).
RetryConfig(initial_delay, max_delay, exponential_base, jitter) ==
    [initial_delay |-> initial_delay, max_delay |-> max_delay,
     exponential_base |-> exponential_base, jitter |-> jitter]

\* The configurations of lines 42-68 and of test_exponential_backoff: an
\* initial delay of 0.5, 1, 2 or 10 s, a maximum of 5, 10, 30 or 60 s.
RetryConfigs ==
    {RetryConfig(i, m, b, j) :
        i \in {5, 10, 20, 100}, m \in {50, 100, 300, 600}, b \in 1..3,
        j \in BOOLEAN}

\* random.random() in hundredths: a value of [0, 1).
Randoms == {0, 25, 50, 99}

\* The largest attempt index calculate_delay is called with.
MaxAttempt == 4

\* calculate_delay without line 83.
CalculateDelayUncapped(n, config, random) ==
    LET delay == config.initial_delay * Pow(config.exponential_base, n) IN
    IF config.jitter THEN delay * (50 + random) ELSE delay * 100

\* calculate_delay(attempt, config), lines 71-90, with the value that
\* random.random() returns when jitter is on.
CalculateDelay(n, config, random) ==
    LET delay == Min(config.initial_delay * Pow(config.exponential_base, n),
                     config.max_delay)
    IN  IF config.jitter THEN delay * (50 + random) ELSE delay * 100

InitDelay ==
    \E n \in 0..MaxAttempt, config \in RetryConfigs :
        /\ f_in = [fn |-> "calculate_delay", attempt |-> n, config |-> config]
        /\ f_out = [none |-> TRUE]
        /\ IdleRate

DelayCall ==
    /\ f_in.fn = "calculate_delay"
    /\ f_out = [none |-> TRUE]
    /\ \E random \in Randoms :
          f_out' = [some |-> CalculateDelay(f_in.attempt, f_in.config, random)]
    /\ UNCHANGED <<f_in, rateVars>>
    /\ UNCHANGED <<cbVars, retryVars, searchVars, askVars, procVars, workerVars>>

NextDelay == DelayCall

\* C24: the delay before retry n is min(initial_delay * base^n, max_delay):
\* with jitter off it is no smaller than the delay of any earlier retry
\* and never exceeds max_delay; with jitter on it is that value scaled by
\* a factor in [0.5, 1.5).
C24_Delay ==
    (f_in.fn = "calculate_delay" /\ "some" \in DOMAIN f_out) =>
        LET n == f_in.attempt
            config == f_in.config
            capped == Min(config.initial_delay * Pow(config.exponential_base, n),
                          config.max_delay)
        IN  IF config.jitter
            THEN 50 * capped <= f_out.some /\ f_out.some < 150 * capped
            ELSE /\ f_out.some = 100 * capped
                 /\ f_out.some <= 100 * config.max_delay
                 /\ \A m \in 0..n : CalculateDelay(m, config, 0) <= f_out.some

\* test_exponential_backoff, attempt 4: 1.0 * 2^4 = 16 s is capped at 10 s.
C24_Witness ==
    /\ f_in.fn = "calculate_delay"
    /\ f_in.attempt = 4
    /\ f_in.config = RetryConfig(10, 100, 2, FALSE)
    /\ f_out = [some |-> 10000]

(***************************************************************************)
(* SlackRetryHandler.safe_api_call: a body that inspects the SlackApiError *)
(* and re-raises it, under retry_on_error(SLACK_RETRY_CONFIG,              *)
(* exceptions=(SlackApiError,))                                            *)
(***************************************************************************)
\* Lines 205-210.
retryable_errors ==
    {"rate_limited", "internal_error", "fatal_error", "service_unavailable"}

\* The values of response['error'] the Slack function fails with in the model.
SlackErrors == {"rate_limited", "internal_error", "invalid_auth", "channel_not_found"}

\* The values of response['retry_after'] of a rate_limited response.
RetryAfters == {0, 1}

\* A SlackApiError instance with its response['error'].
SlackExc(code, id) == [kind |-> "SlackApiError", id |-> id, code |-> code]

\* Lines 212-213.
IsRetryable(error) == error.code \in retryable_errors

\* Lines 216-221; the code tests the value for truth, so 0 is no wait.
GetRetryAfter(error, retry_after) ==
    IF error.code = "rate_limited" THEN retry_after ELSE 0

\* Lines 56-61 and 224-227: the decorator's configuration.
InitSlack == NewWrapper(3, {"SlackApiError"}, FALSE)

\* Lines 239-252 inside lines 119-141: the Slack function raises a
\* SlackApiError; the body sleeps for Retry-After when the error is a rate
\* limit and re-raises it in every case, to the decorator's except clause.
SafeApiCallRaises(code, retry_after) ==
    LET e == SlackExc(code, CountEv(r_log, "call") + 1)
        called == Append(r_log, Event("call", e, attempt))
    IN
    /\ r_pc = "try"
    /\ UNCHANGED <<cbVars, searchVars, askVars, procVars, workerVars, fnVars>>
    /\ r_log' = IF IsRetryable(e) /\ GetRetryAfter(e, retry_after) > 0
                THEN Append(called, Event("retry_after", e, attempt))
                ELSE called
    /\ IF Catches(e.kind)
       THEN /\ last_exception' = e
            /\ IF RetriesLeft
               THEN /\ r_pc' = "on_retry"
                    /\ UNCHANGED attempt
               ELSE /\ attempt' = attempt + 1
                    /\ r_pc' = "exhausted"
            /\ UNCHANGED r_outcome
       ELSE /\ r_outcome' = [kind |-> "raised", value |-> 0, exc |-> e]
            /\ r_pc' = "done"
            /\ UNCHANGED <<attempt, last_exception>>
    /\ UNCHANGED <<max_retries, exceptions, has_on_retry>>

SafeApiCallRaisesSome ==
    \E code \in SlackErrors, retry_after \in RetryAfters :
        SafeApiCallRaises(code, retry_after)

NextSlack ==
    \/ WrapperStart
    \/ TryReturns
    \/ TryRaisesSome
    \/ SafeApiCallRaisesSome
    \/ OnRetry
    \/ Sleep
    \/ RaiseLast

\* C21: a SlackApiError whose error code is not retryable is propagated on
\* its first occurrence: the invocation that raised it is the last thing
\* safe_api_call did (no sleep, no further invocation of the Slack
\* function) and safe_api_call ends by raising that error.
C21_NonRetryablePropagates ==
    \A i \in DOMAIN r_log :
        (/\ r_log[i].ev = "call"
         /\ r_log[i].exc.kind = "SlackApiError"
         /\ ~IsRetryable(r_log[i].exc)) =>
            /\ i = Len(r_log)
            /\ CountEv(r_log, "sleep") = 0
            /\ r_pc = "done"
            /\ r_outcome.kind = "raised"
            /\ r_outcome.exc = r_log[i].exc

(***************************************************************************)
(* Text: strings are sequences of one-character strings                    *)
(***************************************************************************)
\* str.lower() on one character of the model's alphabet.
LowerChar(c) ==
    CASE c = "G" -> "g"
      [] c = "E" -> "e"
      [] c = "D" -> "d"
      [] OTHER -> c

\* str.lower()
Lower(str) == [i \in DOMAIN str |-> LowerChar(str[i])]

\* `sub in str`
Contains(sub, str) ==
    \E i \in 0..(Len(str) - Len(sub)) : SubSeq(str, i + 1, i + Len(sub)) = sub

IsSpace(c) == c = " "

\* str.strip(): leading and trailing whitespace removed.
RECURSIVE LStrip(_)
LStrip(str) ==
    IF str # <<>> /\ IsSpace(Head(str)) THEN LStrip(Tail(str)) ELSE str

RECURSIVE RStrip(_)
RStrip(str) ==
    IF str # <<>> /\ IsSpace(str[Len(str)])
    THEN RStrip(SubSeq(str, 1, Len(str) - 1))
    ELSE str

Strip(str) == RStrip(LStrip(str))

\* dict.get(key, default)
Get(dict, key, default) == IF key \in DOMAIN dict THEN dict[key] ELSE default

(***************************************************************************)
(* VectorStore                                                             *)
(***************************************************************************)
RECURSIVE CountChar(_, _)
CountChar(str, c) ==
    IF str = <<>> THEN 0
    ELSE (IF Head(str) = c THEN 1 ELSE 0) + CountChar(Tail(str), c)

\* self.model.encode(text): the sentence encoder is an external, deterministic
\* function of the text; here the vector of the counts of "a" and of "b".
Encode(text) == <<CountChar(text, "a"), CountChar(text, "b")>>

\* Squared Euclidean distance, the metric of faiss.IndexFlatL2.
L2(u, v) == (u[1] - v[1]) * (u[1] - v[1]) + (u[2] - v[2]) * (u[2] - v[2])

\* Document(page_content, metadata)
Doc(text, meta) == [page_content |-> text, metadata |-> meta]

\* The documents create_index is given in the model: two of them with the
\* same embedding, channel names that differ in case, and one document whose
\* metadata has no channel_name.
DocPool ==
    { Doc(<<"a">>, [channel_name |-> <<"G", "e">>]),
      Doc(<<"a", " ">>, [channel_name |-> <<"d">>]),
      Doc(<<"a", "b">>, [channel |-> <<"C", "1">>]),
      Doc(<<"b">>, [channel_name |-> <<"g", "e", "D">>]) }

\* Lists of distinct documents of the pool, of length at most n.
RECURSIVE DocLists(_)
DocLists(n) ==
    IF n = 0 THEN {<<>>}
    ELSE LET shorter == DocLists(n - 1)
             longest == {l \in shorter : Len(l) = n - 1}
         IN  shorter \cup
             UNION { { Append(l, d) : d \in {x \in DocPool : \A i \in DOMAIN l : l[i] # x} }
                     : l \in longest }

Queries == {<<" ">>, <<"a">>, <<" ", "b">>}

\* An optional argument or attribute: Python's None, or a value.
PyNone == [none |-> TRUE]
Some(v) == [some |-> v]

\* `if x:` for an optional string: neither None nor empty.
Truthy(opt) == opt # PyNone /\ opt.some # <<>>

\* channel_filter arguments: absent (None), empty, and substrings in either case.
Filters == {PyNone, Some(<<>>), Some(<<"g", "E">>), Some(<<"e", "D">>), Some(<<"d">>)}

\* What the last VectorStore operation was given and what it returned or raised.
Returned(op, query, k, channel_filter, value) ==
    [op |-> op, query |-> query, k |-> k, channel_filter |-> channel_filter,
     raised |-> None, value |-> value]
Raised(op, query, k, channel_filter, kind) ==
    [op |-> op, query |-> query, k |-> k, channel_filter |-> channel_filter,
     raised |-> kind, value |-> <<>>]

\* create_index(docs) returned normally on a store that held `before` vectors.
Built(docs, before) ==
    [op |-> "create_index", query |-> <<>>, k |-> 0, channel_filter |-> PyNone,
     raised |-> None, value |-> <<>>, docs |-> docs, before |-> before]

\* Neither index.faiss nor documents.pkl exists under the index path.
NoFiles == [index |-> PyNone, docs |-> PyNone]

\* VectorStore.__init__, lines 32-34: no index, no documents. `files` is
\* what the index path holds when the store is constructed.
NewStore(files) ==
    /\ index = PyNone
    /\ documents = <<>>
    /\ metadata = <<>>
    /\ vs_last = Returned("init", <<>>, 0, PyNone, <<>>)
    /\ disk = files
    /\ vs_built = FALSE

InitStore == NewStore(NoFiles)

\* index.ntotal
NTotal == Len(index.some)

\* create_index adding to the index and the lists it already holds.
CreateIndexMerging(docs) ==
    /\ a_pc = "idle"
    /\ UNCHANGED <<cbVars, retryVars, askVars, procVars, workerVars, fnVars>>
    /\ UNCHANGED disk
    /\ vs_last' = Built(docs, IF index = PyNone THEN PyNone ELSE Some(NTotal))
    /\ IF docs = <<>>
       THEN UNCHANGED <<index, documents, metadata, vs_built>>
       ELSE /\ index' = Some((IF index = PyNone THEN <<>> ELSE index.some) \o
                             [i \in DOMAIN docs |-> Encode(docs[i].page_content)])
            /\ documents' = documents \o docs
            /\ metadata' = metadata \o [i \in DOMAIN docs |-> docs[i].metadata]
            /\ vs_built' = TRUE

\* create_index(docs), lines 38-74. An empty list is logged and ignored.
\* The single worker builds before it answers a question, not during one.
CreateIndex(docs) ==
    /\ a_pc = "idle"
    /\ UNCHANGED <<cbVars, retryVars, askVars, procVars, workerVars, fnVars>>
    /\ UNCHANGED disk
    /\ vs_last' = Built(docs, IF index = PyNone THEN PyNone ELSE Some(NTotal))
    /\ IF docs = <<>>
       THEN UNCHANGED <<index, documents, metadata, vs_built>>
       ELSE /\ index' = Some([i \in DOMAIN docs |-> Encode(docs[i].page_content)])
            /\ documents' = docs
            /\ metadata' = [i \in DOMAIN docs |-> docs[i].metadata]
            /\ vs_built' = TRUE

\* The document lists create_index is called with.
BuildInputs == DocLists(Cardinality(DocPool))

CreateIndexSome == \E docs \in BuildInputs : CreateIndex(docs)

\* Line 207-208: how many neighbours the index is asked for.
SearchK(k, channel_filter) ==
    Min(IF Truthy(channel_filter) THEN k * 3 ELSE k, NTotal)

\* faiss.IndexFlatL2.search: the positions of the n nearest vectors in
\* ascending distance; the order among equal distances is not specified,
\* so every such order is a possible answer.
RECURSIVE NearestOrders(_, _, _)
NearestOrders(q, remaining, n) ==
    IF n = 0 \/ remaining = {} THEN {<<>>}
    ELSE LET nearest == { i \in remaining :
                            \A j \in remaining :
                                L2(q, index.some[i]) <= L2(q, index.some[j]) }
         IN  UNION { { <<i>> \o rest : rest \in NearestOrders(q, remaining \ {i}, n - 1) }
                     : i \in nearest }

\* PassesFilter comparing the filter as typed (line 220 without .lower()).
PassesFilterAsTyped(meta, channel_filter) ==
    IF Truthy(channel_filter)
    THEN Contains(channel_filter.some, Lower(Get(meta, "channel_name", <<>>)))
    ELSE TRUE

\* Lines 218-221: the entry passes the channel filter (or there is none).
PassesFilter(meta, channel_filter) ==
    IF Truthy(channel_filter)
    THEN Contains(Lower(channel_filter.some), Lower(Get(meta, "channel_name", <<>>)))
    ELSE TRUE

\* Result with the rank taken from the candidate's position (enumerate's i).
ResultRankedBeforeFilter(q, idx, c, results) ==
    [document |-> documents[idx],
     metadata |-> metadata[idx],
     score |-> L2(q, index.some[idx]),
     rank |-> c]

\* Lines 223-228: the entry appended to `results` for candidate number c.
Result(q, idx, c, results) ==
    [document |-> documents[idx],
     metadata |-> metadata[idx],
     score |-> L2(q, index.some[idx]),
     rank |-> Len(results) + 1]

\* Lines 212-232: the loop over the candidates, from candidate c on.
RECURSIVE Collect(_, _, _, _, _, _)
Collect(q, cands, c, k, channel_filter, results) ==
    IF c > Len(cands) THEN results
    ELSE LET idx == cands[c] IN
         IF idx <= Len(documents) /\ PassesFilter(metadata[idx], channel_filter)
         THEN LET more == Append(results, Result(q, idx, c, results))
              IN IF Len(more) >= k THEN more
                 ELSE Collect(q, cands, c + 1, k, channel_filter, more)
         ELSE Collect(q, cands, c + 1, k, channel_filter, results)

\* The values search(query, k, channel_filter) may return or raise, lines 192-238.
SearchOutcomes(query, k, channel_filter) ==
    IF index = PyNone THEN {Raised("search", query, k, channel_filter, "ValueError")}
    ELSE IF Strip(query) = <<>> THEN {Returned("search", query, k, channel_filter, <<>>)}
    ELSE LET q == Encode(query) IN
         { Returned("search", query, k, channel_filter,
                    Collect(q, cands, 1, k, channel_filter, <<>>))
           : cands \in NearestOrders(q, 1..NTotal, SearchK(k, channel_filter)) }

Search(query, k, channel_filter) ==
    /\ UNCHANGED <<cbVars, retryVars, askVars, procVars, workerVars, fnVars>>
    /\ UNCHANGED <<index, documents, metadata, disk, vs_built>>
    /\ vs_last' \in SearchOutcomes(query, k, channel_filter)

SearchSome ==
    \E query \in Queries, k \in 1..MaxK, channel_filter \in Filters :
        Search(query, k, channel_filter)

NextSearch ==
    \/ CreateIndexSome
    \/ SearchSome

(***************************************************************************)
(* VectorStore persistence: save_index and load_index                      *)
(***************************************************************************)
\* The steps of save_index and of load_index that can fail; each is wrapped
\* in retry_on_error, and `fails` names the step whose retries are used up
\* (or whose exception is not in its allow-list), "none" if there is none.
SaveSteps == {"none", "create_dir", "save_index", "save_docs"}
LoadSteps == {"none", "load_index", "load_docs"}

\* save_index(path), lines 76-129.
SaveIndex(fails) ==
    /\ a_pc = "idle"
    /\ UNCHANGED <<cbVars, retryVars, askVars, procVars, workerVars, fnVars>>
    /\ UNCHANGED <<index, documents, metadata, vs_built>>
    /\ IF index = PyNone
       THEN /\ vs_last' = Raised("save_index", <<>>, 0, PyNone, "ValueError")
            /\ UNCHANGED disk
       ELSE IF fails \in {"create_dir", "save_index"}
       THEN /\ vs_last' = Raised("save_index", <<>>, 0, PyNone, "OSError")
            /\ UNCHANGED disk
       ELSE IF fails = "save_docs"
       THEN /\ vs_last' = Raised("save_index", <<>>, 0, PyNone, "OSError")
            /\ disk' = [disk EXCEPT !.index = index]
       ELSE /\ vs_last' = Returned("save_index", <<>>, 0, PyNone, <<>>)
            /\ disk' = [index |-> index,
                        docs |-> Some([documents |-> documents,
                                       metadata |-> metadata])]

SaveIndexSome == \E fails \in SaveSteps : SaveIndex(fails)

\* load_index(path), lines 131-178. Line 158 assigns self.index as soon as
\* index.faiss is read; lines 171-172 assign the documents and the metadata
\* after documents.pkl is read.
LoadIndex(fails) ==
    /\ a_pc = "idle"
    /\ UNCHANGED <<cbVars, retryVars, askVars, procVars, workerVars, fnVars>>
    /\ UNCHANGED disk
    /\ IF disk.index = PyNone \/ disk.docs = PyNone
       THEN /\ vs_last' = Raised("load_index", <<>>, 0, PyNone, "FileNotFoundError")
            /\ UNCHANGED <<index, documents, metadata, vs_built>>
       ELSE IF fails = "load_index"
       THEN /\ vs_last' = Raised("load_index", <<>>, 0, PyNone, "RuntimeError")
            /\ UNCHANGED <<index, documents, metadata, vs_built>>
       ELSE IF fails = "load_docs"
       THEN /\ vs_last' = Raised("load_index", <<>>, 0, PyNone, "UnpicklingError")
            /\ index' = disk.index
            /\ UNCHANGED <<documents, metadata, vs_built>>
       ELSE /\ vs_last' = Returned("load_index", <<>>, 0, PyNone, <<>>)
            /\ index' = disk.index
            /\ documents' = disk.docs.some.documents
            /\ metadata' = disk.docs.some.metadata
            /\ vs_built' = TRUE

LoadIndexSome == \E fails \in LoadSteps : LoadIndex(fails)

\* The document lists the lifecycle of one store is followed with.
FewInputs == {docs \in BuildInputs : Len(docs) <= 1}

CreateIndexFew == \E docs \in FewInputs : CreateIndex(docs)

\* What an earlier run of scripts/index_messages.py has left under the
\* index path: nothing, or the two artifacts of one build.
SavedFiles ==
    {NoFiles} \cup
    { [index |-> Some([i \in DOMAIN docs |-> Encode(docs[i].page_content)]),
       docs |-> Some([documents |-> docs,
                      metadata |-> [i \in DOMAIN docs |-> docs[i].metadata]])]
      : docs \in FewInputs \ {<<>>} }

NextStore ==
    \/ CreateIndexFew
    \/ SaveIndexSome
    \/ LoadIndexSome
    \/ SearchSome

(***************************************************************************)
(* Properties of VectorStore.search (checked under SpecSearch)             *)
(***************************************************************************)
\* The last operation was a search that reached the index (lines 200-238).
Searched ==
    /\ vs_last.op = "search"
    /\ vs_last.raised = None
    /\ Strip(vs_last.query) # <<>>

\* The position in the index of the document of a result entry.
PosOf(r) == CHOOSE i \in 1..Len(documents) : documents[i] = r.document

\* The distance of index entry i from the last query.
Dist(i) == L2(Encode(vs_last.query), index.some[i])

\* The channel name of a metadata dict contains the string f, ignoring case.
NameContains(meta, f) ==
    Contains(Lower(f), Lower(Get(meta, "channel_name", <<>>)))

Prefix(seq, n) == SubSeq(seq, 1, Min(n, Len(seq)))

\* C9: a search with a channel filter f returns at most k entries, each with
\* a channel name containing f case-insensitively, and they are exactly the
\* first k matching entries, in ascending distance, of the min(3k, index
\* size) nearest candidates, so possibly fewer than k.
C9_FilteredSearch ==
    (Searched /\ vs_last.channel_filter # PyNone) =>
        LET f == vs_last.channel_filter.some
            k == vs_last.k
            R == vs_last.value
        IN  /\ Len(R) <= k
            /\ \A i \in DOMAIN R : NameContains(R[i].metadata, f)
            /\ \E cands \in NearestOrders(Encode(vs_last.query), 1..NTotal,
                                          Min(3 * k, NTotal)) :
                 LET matching == SelectSeq(cands,
                                     LAMBDA i : NameContains(metadata[i], f))
                 IN  /\ \A i \in 1..(Len(cands) - 1) : Dist(cands[i]) <= Dist(cands[i + 1])
                     /\ [i \in DOMAIN R |-> PosOf(R[i])] = Prefix(matching, k)
                     /\ \A i \in DOMAIN R : R[i].score = Dist(PosOf(R[i]))

\* A filtered search for one result came back empty although the index
\* holds a matching entry: it lies beyond the 3k nearest candidates.
C9_Witness ==
    /\ Searched
    /\ Truthy(vs_last.channel_filter)
    /\ vs_last.k = 1
    /\ vs_last.value = <<>>
    /\ NTotal > 3
    /\ \E i \in 1..NTotal : NameContains(metadata[i], vs_last.channel_filter.some)

\* C10: a search without a filter returns the min(k, index size) entries of
\* lowest distance in ascending distance order; and with or without a
\* filter the ranks of the returned entries are 1, 2, ..., n in result order.
C10_NearestAndRanks ==
    Searched =>
        LET k == vs_last.k
            R == vs_last.value
            returned == {PosOf(R[i]) : i \in DOMAIN R}
        IN  /\ \A i \in DOMAIN R : R[i].rank = i
            /\ vs_last.channel_filter = PyNone =>
                 /\ Len(R) = Min(k, NTotal)
                 /\ Cardinality(returned) = Len(R)
                 /\ \A i \in DOMAIN R : R[i].score = Dist(PosOf(R[i]))
                 /\ \A i, j \in DOMAIN R : i < j => R[i].score <= R[j].score
                 /\ \A i \in returned, j \in (1..NTotal) \ returned : Dist(i) <= Dist(j)

\* A filtered search skipped a nearer entry and ranked the two it kept 1, 2.
C10_Witness ==
    /\ Searched
    /\ Truthy(vs_last.channel_filter)
    /\ Len(vs_last.value) = 2
    /\ vs_last.value[2].rank = 2
    /\ \E j \in 1..NTotal :
          /\ j \notin {PosOf(vs_last.value[i]) : i \in 1..2}
          /\ Dist(j) < vs_last.value[2].score

\* C26: load_index is all or nothing: when either artifact is missing it
\* fails with a not-found error, and a load that fails, for a missing
\* artifact or a read failure of either artifact, leaves the index, the
\* documents and the metadata of the store exactly as they were.
C26_LoadAllOrNothing ==
    [][vs_last'.op = "load_index" =>
          /\ (disk.index = PyNone \/ disk.docs = PyNone) =>
                vs_last'.raised = "FileNotFoundError"
          /\ vs_last'.raised # None => UNCHANGED <<index, documents, metadata>>]_vars

\* Settings.PRIORITY_CHANNELS in the channel names of the model, and
\* Settings.PRIORITY_BOOST_FACTOR (0.3) in tenths.
PRIORITY_CHANNELS == {<<"g", "e">>, <<"d">>}
PRIORITY_BOOST_FACTOR == 3

\* The channel of a metadata dict is a priority channel, ignoring case.
InPriorityChannel(meta) ==
    \E p \in PRIORITY_CHANNELS : Lower(Get(meta, "channel_name", <<>>)) = Lower(p)

\* C25: every result of a search exposes its original score, its adjusted
\* score and a boolean priority flag; the adjusted score of a result from a
\* priority channel (case-insensitive) is raw_distance * (1 - boost_factor),
\* not below 0, and the raw distance otherwise; results are in ascending
\* adjusted score, and of two results with equal raw distance a
\* priority-channel one comes before the other.
C25_PriorityPolicy ==
    Searched =>
        LET R == vs_last.value IN
        /\ \A i \in DOMAIN R :
              /\ {"original_score", "score", "is_priority"} \subseteq DOMAIN R[i]
              /\ R[i].original_score = Dist(PosOf(R[i]))
              /\ R[i].is_priority = InPriorityChannel(R[i].metadata)
              /\ R[i].score >= 0
              /\ 10 * R[i].score =
                    IF R[i].is_priority
                    THEN R[i].original_score * (10 - PRIORITY_BOOST_FACTOR)
                    ELSE 10 * R[i].original_score
        /\ \A i, j \in DOMAIN R :
              i < j =>
                 /\ R[i].score <= R[j].score
                 /\ ~(/\ R[i].original_score = R[j].original_score
                      /\ ~R[i].is_priority
                      /\ R[j].is_priority)

(***************************************************************************)
(* Properties of the VectorStore lifecycle                                 *)
(***************************************************************************)
\* C11: a search on a store on which no create_index and no load_index has
\* succeeded raises the index-not-built error (ValueError "No index
\* exists"), whatever the query, and returns no result list.
C11_SearchNeedsBuild ==
    (vs_last.op = "search" /\ ~vs_built) => vs_last.raised = "ValueError"

\* C12: create_index called with zero chunks does not return normally, on
\* an empty store and on a built one.
C12_EmptyBuildFails ==
    (vs_last.op = "create_index" /\ vs_last.docs = <<>>) => vs_last.raised # None

\* C13: after create_index(chunks) with non-empty chunks on a store that
\* already held an index, the vectors, the documents and the metadata are
\* those of `chunks` and nothing else, in the order of `chunks`, entry i of
\* each of the three describing chunk i.
C13_RebuildReplaces ==
    (/\ vs_last.op = "create_index"
     /\ vs_last.docs # <<>>
     /\ vs_last.before # PyNone) =>
        LET chunks == vs_last.docs IN
        /\ index # PyNone
        /\ NTotal = Len(chunks)
        /\ Len(documents) = Len(chunks)
        /\ Len(metadata) = Len(chunks)
        /\ \A i \in DOMAIN chunks :
              /\ index.some[i] = Encode(chunks[i].page_content)
              /\ documents[i] = chunks[i]
              /\ metadata[i] = chunks[i].metadata

\* A store holding three entries was rebuilt from one chunk.
C13_Witness ==
    /\ vs_last.op = "create_index"
    /\ vs_last.before = Some(3)
    /\ Len(vs_last.docs) = 1
    /\ documents = vs_last.docs
    /\ NTotal = 1

(***************************************************************************)
(* utils.py helpers used by the answer orchestrator                        *)
(***************************************************************************)
\* Confidence values are in thousandths (1000 is 1.0) and the distances
\* given to calculate_confidence in tenths (15 is 1.5), so that
\* 1.0 - d / 10.0 and its product with 1.2 are whole numbers.
\* Line 270 without its min(1.0, ...).
CalculateConfidenceUnclamped(distances, num_results) ==
    IF distances = <<>> \/ num_results = 0 THEN 0
    ELSE LET confidence == Max(0, Min(1000, 1000 - 10 * distances[1])) IN
         IF Len(distances) >= 3 /\ \A i \in 1..3 : distances[i] < 15
         THEN (confidence * 12) \div 10
         ELSE confidence

\* calculate_confidence(distances, num_results), utils.py:246-272.
CalculateConfidence(distances, num_results) ==
    IF distances = <<>> \/ num_results = 0 THEN 0
    ELSE LET confidence == Max(0, Min(1000, 1000 - 10 * distances[1])) IN
         IF Len(distances) >= 3 /\ \A i \in 1..3 : distances[i] < 15
         THEN Min(1000, (confidence * 12) \div 10)
         ELSE confidence

\* The distances (in tenths) calculate_confidence is given in the model.
DistanceValues == {0, 1, 2, 3, 14, 15, 16, 99, 100, 120}
MaxDistances == 3

RECURSIVE SeqsUpTo(_, _)
SeqsUpTo(values, n) ==
    IF n = 0 THEN {<<>>}
    ELSE LET shorter == SeqsUpTo(values, n - 1) IN
         shorter \cup {Append(s, v) : s \in shorter, v \in values}

\* The call of rag_engine.py:223-224 is about to be made on `distances`.
InitConfidence ==
    \E distances \in SeqsUpTo(DistanceValues, MaxDistances) :
        /\ f_in = [fn |-> "calculate_confidence", distances |-> distances,
                   num_results |-> Len(distances)]
        /\ f_out = [none |-> TRUE]
        /\ IdleRate

\* The call returns.
ConfidenceCall ==
    /\ f_in.fn = "calculate_confidence"
    /\ f_out = [none |-> TRUE]
    /\ f_out' = [some |-> CalculateConfidence(f_in.distances, f_in.num_results)]
    /\ UNCHANGED <<f_in, rateVars>>
    /\ UNCHANGED <<cbVars, retryVars, searchVars, askVars, procVars, workerVars>>

NextConfidence == ConfidenceCall

Clamp(x, lo, hi) == Max(lo, Min(hi, x))

\* C23: for every list of non-negative distances the result of
\* calculate_confidence lies in [0, 1]; it is 0.0 for the empty list and
\* otherwise clamp(1 - distance[0]/10, 0, 1), multiplied by 1.2 and clamped
\* to 1.0 exactly when there are at least 3 distances and the first three
\* are all below 1.5; [0.1, 0.2, 0.3] gives 1.0 and [9.9] gives 0.01.
C23_Confidence ==
    (f_in.fn = "calculate_confidence" /\ "some" \in DOMAIN f_out) =>
        LET d == f_in.distances
            c == f_out.some
            boosted == Len(d) >= 3 /\ d[1] < 15 /\ d[2] < 15 /\ d[3] < 15
        IN  /\ 0 <= c /\ c <= 1000
            /\ d = <<>> => c = 0
            /\ (d # <<>> /\ ~boosted) => c = Clamp(1000 - 10 * d[1], 0, 1000)
            /\ (d # <<>> /\ boosted) =>
                  c = Min(1000, (Clamp(1000 - 10 * d[1], 0, 1000) * 12) \div 10)
            /\ d = <<1, 2, 3>> => c = 1000
            /\ d = <<99>> => c = 10

\* The boosted example of the specification has been computed.
C23_Witness ==
    /\ f_in.fn = "calculate_confidence"
    /\ f_in.distances = <<1, 2, 3>>
    /\ f_out = [some |-> 1000]


\* format_confidence_indicator(confidence), utils.py:175-190.
FormatConfidenceIndicator(confidence) ==
    IF confidence >= 800 THEN "High confidence answer"
    ELSE IF confidence >= 500 THEN "Moderate confidence - verify if critical"
    ELSE "Low confidence - information may be incomplete"

\* The last position of a space in str, 0 if there is none.
LastSpace(str) ==
    LET at == {i \in DOMAIN str : str[i] = " "} IN
    IF at = {} THEN 0 ELSE CHOOSE i \in at : \A j \in at : j <= i

\* truncate_text(text, max_length), utils.py:193-206.
TruncateText(text, max_length) ==
    IF Len(text) <= max_length THEN text
    ELSE LET cut == SubSeq(text, 1, max_length) IN
         (IF LastSpace(cut) = 0 THEN cut ELSE SubSeq(cut, 1, LastSpace(cut) - 1))
             \o <<".", ".", ".">>

(***************************************************************************)
(* RAGEngine.ask                                                           *)
(***************************************************************************)
\* max_retries and retry_delay of the completion loop.
AskMaxRetries == 3
AskRetryDelay == 10

\* metadata.get(key, 'Unknown')
Unknown == <<"U", "n", "k", "n", "o", "w", "n">>

\* _format_sources(results, max_sources), lines 94-119.
FormatSources(results, max_sources) ==
    [i \in 1..Min(max_sources, Len(results)) |->
        [user |-> Get(results[i].metadata, "user", Unknown),
         timestamp |-> Get(results[i].metadata, "formatted_time", Unknown),
         channel |-> Get(results[i].metadata, "channel", Unknown),
         preview |-> TruncateText(results[i].document.page_content, 150),
         score |-> results[i].score]]

\* The answers ask builds itself (lines 141, 204, 238, 248).
NotFoundAnswer == "I couldn't find that information in the conversation history."
RateLimitedAnswer == "GitHub Models is currently rate-limited."
RateLimitedOuterAnswer == "I'm currently rate-limited by the AI service."
ErrorAnswer == "I encountered an error while processing your question."

\* ask returned `dict`, or let an exception of class `kind` out.
AskReturned(dict) == [returned |-> dict]
AskRaised(kind) == [raised |-> kind]

\* Lines 140-145.
NotFoundResult ==
    [answer |-> NotFoundAnswer, sources |-> <<>>, confidence |-> 0,
     confidence_indicator |-> FormatConfidenceIndicator(0)]

\* Lines 203-209.
RateLimitedResult ==
    [answer |-> RateLimitedAnswer, sources |-> <<>>, confidence |-> 0,
     confidence_indicator |-> FormatConfidenceIndicator(0), error |-> "rate_limit"]

\* Lines 219-233: the answer of the completion service with its sources.
AnswerResult(answer, results) ==
    LET confidence ==
            CalculateConfidence([i \in DOMAIN results |-> 10 * results[i].score],
                                Len(results))
    IN  [answer |-> answer, sources |-> FormatSources(results, 5),
         confidence |-> confidence,
         confidence_indicator |-> FormatConfidenceIndicator(confidence)]

\* Lines 235-253: what becomes of an exception of class `kind` that leaves
\* the body of the outer try.
Handled(kind) ==
    IF IsInstance(kind, {"RateLimitError"})
    THEN AskReturned([answer |-> RateLimitedOuterAnswer, sources |-> <<>>,
                      confidence |-> 0,
                      confidence_indicator |-> FormatConfidenceIndicator(0),
                      error |-> "rate_limit"])
    ELSE IF IsInstance(kind, {"Exception"})
    THEN AskReturned([answer |-> ErrorAnswer, sources |-> <<>>, confidence |-> 0,
                      confidence_indicator |-> FormatConfidenceIndicator(0),
                      error |-> kind])
    ELSE AskRaised(kind)

\* RAGEngine.__init__: no question asked yet.
InitAsk ==
    /\ a_pc = "idle"
    /\ a_args = [question |-> <<>>, k |-> 0, passes_channel_filter |-> FALSE,
                 channel_filter |-> PyNone]
    /\ a_results = <<>>
    /\ a_attempt = 0
    /\ a_outcomes = <<>>
    /\ a_sleeps = <<>>
    /\ a_ret = PyNone

\* The call ask(question, k=k), or ask(question, k=k, channel_filter=...)
\* as slack_bot.py:205 and :282 make it, up to the first completion attempt
\* (lines 121-172). The signature of line 121 has no channel_filter
\* parameter, so a call that passes the keyword fails to bind: TypeError.
AskStart(question, k, passes_channel_filter, channel_filter) ==
    /\ a_pc = "idle"
    /\ UNCHANGED <<cbVars, retryVars, searchVars, procVars, workerVars, fnVars>>
    /\ a_args' = [question |-> question, k |-> k,
                  passes_channel_filter |-> passes_channel_filter,
                  channel_filter |-> channel_filter]
    /\ UNCHANGED <<a_outcomes, a_sleeps>>
    /\ a_attempt' = 0
    /\ IF passes_channel_filter
       THEN /\ a_ret' = AskRaised("TypeError")
            /\ a_pc' = "done"
            /\ UNCHANGED a_results
       ELSE \E found \in SearchOutcomes(question, k, PyNone) :
              IF found.raised # None
              THEN /\ a_ret' = Handled(found.raised)
                   /\ a_pc' = "done"
                   /\ UNCHANGED a_results
              ELSE IF found.value = <<>>
              THEN /\ a_ret' = AskReturned(NotFoundResult)
                   /\ a_pc' = "done"
                   /\ UNCHANGED a_results
              ELSE /\ a_results' = found.value
                   /\ a_pc' = "complete"
                   /\ UNCHANGED a_ret

AskStartSome ==
    \E question \in Queries, k \in 1..MaxK, passes \in BOOLEAN,
       channel_filter \in Filters :
        /\ ~passes => channel_filter = PyNone
        /\ AskStart(question, k, passes, channel_filter)

\* How one chat-completion call ends: an answer, a response without
\* content (None.strip() is an AttributeError), or an exception.
CompletionOutcomes ==
    {"ok", "AttributeError", "RateLimitError", "APIError", "APITimeoutError",
     "RuntimeError"}

\* Lines 194 and 212 with the budget off by one.
AskRetriesLeftOffByOne == a_attempt < AskMaxRetries

\* Lines 194 and 212: this was not the last attempt.
AskRetriesLeft == a_attempt < AskMaxRetries - 1

\* 2 ** n
RECURSIVE Pow2(_)
Pow2(n) == IF n = 0 THEN 1 ELSE 2 * Pow2(n - 1)

\* One iteration of the loop of lines 172-217, and what follows it.
AskComplete(outcome) ==
    /\ a_pc = "complete"
    /\ UNCHANGED <<cbVars, retryVars, searchVars, procVars, workerVars, fnVars>>
    /\ UNCHANGED <<a_args, a_results>>
    /\ a_outcomes' = Append(a_outcomes, outcome)
    /\ IF outcome = "ok"
       THEN /\ a_ret' = AskReturned(AnswerResult("answer of the model", a_results))
            /\ a_pc' = "done"
            /\ UNCHANGED <<a_attempt, a_sleeps>>
       ELSE IF IsInstance(outcome, {"RateLimitError"}) \/ IsInstance(outcome, {"APIError"})
       THEN IF AskRetriesLeft
            THEN /\ a_sleeps' = Append(a_sleeps, AskRetryDelay * Pow2(a_attempt))
                 /\ a_attempt' = a_attempt + 1
                 /\ UNCHANGED <<a_pc, a_ret>>
            ELSE /\ a_ret' = IF IsInstance(outcome, {"RateLimitError"})
                             THEN AskReturned(RateLimitedResult)
                             ELSE Handled(outcome)
                 /\ a_pc' = "done"
                 /\ UNCHANGED <<a_attempt, a_sleeps>>
       ELSE /\ a_ret' = Handled(outcome)
            /\ a_pc' = "done"
            /\ UNCHANGED <<a_attempt, a_sleeps>>

AskCompleteSome == \E outcome \in CompletionOutcomes : AskComplete(outcome)

NextAsk ==
    \/ CreateIndexSome
    \/ AskStartSome
    \/ AskCompleteSome

(***************************************************************************)
(* Properties of RAGEngine.ask (checked under SpecAsk)                     *)
(***************************************************************************)
\* C7: for every question, every k, with or without a channel_filter
\* argument, and for every outcome of the search and of each completion
\* attempt, ask returns a dict with answer, sources, confidence and
\* confidence_indicator and never raises to its caller.
C7_AlwaysStructured ==
    a_pc = "done" =>
        /\ "returned" \in DOMAIN a_ret
        /\ {"answer", "sources", "confidence", "confidence_indicator"}
              \subseteq DOMAIN a_ret.returned

\* The failures the completion loop retries.
RetryableKinds == {"RateLimitError", "APIError", "APIConnectionError", "APITimeoutError"}

\* C8: when every completion attempt of the budget fails with a retryable
\* failure, ask has invoked the completion service exactly 3 times and
\* returns a degraded answer with confidence 0.0, no sources and an `error`
\* tag; its text after a final rate-limit failure differs from the text
\* after a final generic API failure.
C8_ExhaustedCompletion ==
    (/\ a_pc = "done"
     /\ a_outcomes # <<>>
     /\ \A i \in DOMAIN a_outcomes : a_outcomes[i] \in RetryableKinds) =>
        /\ Len(a_outcomes) = 3
        /\ "returned" \in DOMAIN a_ret
        /\ a_ret.returned.confidence = 0
        /\ a_ret.returned.sources = <<>>
        /\ "error" \in DOMAIN a_ret.returned
        /\ a_ret.returned.answer =
              IF a_outcomes[3] = "RateLimitError" THEN RateLimitedAnswer ELSE ErrorAnswer
        /\ RateLimitedAnswer # ErrorAnswer

\* A timeout, a rate limit and a generic API failure used up the budget.
C8_Witness ==
    /\ a_pc = "done"
    /\ a_outcomes = <<"APITimeoutError", "RateLimitError", "APIError">>
    /\ a_sleeps = <<10, 20>>
    /\ a_ret.returned.answer = ErrorAnswer
    /\ a_ret.returned.error = "APIError"

\* The search ask was called to make finds nothing.
SearchFindsNothing ==
    \E found \in SearchOutcomes(a_args.question, a_args.k, a_args.channel_filter) :
        found.raised = None /\ found.value = <<>>

\* C22: when the vector search returns no results, ask returns the fixed
\* 'not found' answer with confidence 0.0 and no sources, without invoking
\* the chat-completion service, and the answer carries a suffix after the
\* fixed text when a channel filter was active.
C22_NotFound ==
    (a_pc = "done" /\ SearchFindsNothing) =>
        /\ "returned" \in DOMAIN a_ret
        /\ a_ret.returned.confidence = 0
        /\ a_ret.returned.sources = <<>>
        /\ a_outcomes = <<>>
        /\ IF Truthy(a_args.channel_filter)
           THEN a_ret.returned.answer # NotFoundAnswer
           ELSE a_ret.returned.answer = NotFoundAnswer

(***************************************************************************)
(* check_rate_limit (slack_bot.py:61-88) and the module state it keeps     *)
(***************************************************************************)
RATE_LIMIT_WINDOW == 60
MAX_REQUESTS_PER_MINUTE == 2

Users == {"U1", "U2"}

\* The clock advances in steps of TickSeconds, MaxTicks times at most.
TickSeconds == 30
MaxTicks == 4

\* Lines 24-27: user_requests = defaultdict(list), no request on record.
InitRate ==
    /\ user_requests = [u \in Users |-> <<>>]
    /\ rl_now = 0
    /\ granted = [u \in Users |-> <<>>]
    /\ f_in = [fn |-> "none"]
    /\ f_out = [none |-> TRUE]

\* Time passes between two calls.
RateTick ==
    /\ rl_now < MaxTicks * TickSeconds
    /\ rl_now' = rl_now + TickSeconds
    /\ UNCHANGED <<user_requests, granted, f_in, f_out>>
    /\ UNCHANGED <<cbVars, retryVars, searchVars, askVars, procVars, workerVars>>

\* Lines 74-77: the requests of the last RATE_LIMIT_WINDOW seconds.
Recent(times, t) == SelectSeq(times, LAMBDA req_time : t - req_time < RATE_LIMIT_WINDOW)

\* check_rate_limit appending the time of a denied call as well.
CheckRateLimitRecordingDenied(user_id) ==
    LET kept == Recent(user_requests[user_id], rl_now)
        current_count == Len(kept)
    IN  /\ f_in' = [fn |-> "check_rate_limit", user_id |-> user_id]
        /\ user_requests' = [user_requests EXCEPT ![user_id] = Append(kept, rl_now)]
        /\ IF current_count >= MAX_REQUESTS_PER_MINUTE
           THEN /\ f_out' = [some |-> [is_allowed |-> FALSE, remaining |-> 0]]
                /\ UNCHANGED granted
           ELSE /\ granted' = [granted EXCEPT ![user_id] = Append(@, rl_now)]
                /\ f_out' = [some |-> [is_allowed |-> TRUE,
                                       remaining |-> MAX_REQUESTS_PER_MINUTE
                                                     - current_count - 1]]
        /\ UNCHANGED rl_now
        /\ UNCHANGED <<cbVars, retryVars, searchVars, askVars, procVars, workerVars>>

\* check_rate_limit(user_id), lines 61-88.
CheckRateLimit(user_id) ==
    LET kept == Recent(user_requests[user_id], rl_now)
        current_count == Len(kept)
    IN  /\ f_in' = [fn |-> "check_rate_limit", user_id |-> user_id]
        /\ IF current_count >= MAX_REQUESTS_PER_MINUTE
           THEN /\ user_requests' = [user_requests EXCEPT ![user_id] = kept]
                /\ f_out' = [some |-> [is_allowed |-> FALSE, remaining |-> 0]]
                /\ UNCHANGED granted
           ELSE /\ user_requests' = [user_requests EXCEPT ![user_id] =
                                        Append(kept, rl_now)]
                /\ granted' = [granted EXCEPT ![user_id] = Append(@, rl_now)]
                /\ f_out' = [some |-> [is_allowed |-> TRUE,
                                       remaining |-> MAX_REQUESTS_PER_MINUTE
                                                     - current_count - 1]]
        /\ UNCHANGED rl_now
        /\ UNCHANGED <<cbVars, retryVars, searchVars, askVars, procVars, workerVars>>

CheckRateLimitSome == \E user_id \in Users : CheckRateLimit(user_id)

NextRate ==
    \/ RateTick
    \/ CheckRateLimitSome

\* The number of the times of `times` that lie in [from, to).
AllowedIn(times, from, to) ==
    Cardinality({i \in DOMAIN times : from <= times[i] /\ times[i] < to})

\* The first time from t on at which a call of a user with these requests
\* on record is allowed.
NextAllowedAt(times, t) ==
    LET ok == {s \in t..(t + RATE_LIMIT_WINDOW) :
                  Len(Recent(times, s)) < MAX_REQUESTS_PER_MINUTE}
    IN  CHOOSE s \in ok : \A x \in ok : s <= x

\* C27: at every call of check_rate_limit, for each user at most
\* MAX_REQUESTS_PER_MINUTE calls have been allowed within any 60-second
\* window (the fullest windows start at an allowed call); a denied call records nothing and does not postpone the moment
\* the user is next allowed; the remaining count returned is
\* MAX_REQUESTS_PER_MINUTE minus the user's allowed calls of the current
\* window; and the requests on record of every other user are unchanged.
C27_RateLimit ==
    [][rl_now' = rl_now =>
          LET u == f_in'.user_id
              ret == f_out'.some
          IN  /\ \A v \in Users : \A i \in DOMAIN granted'[v] :
                    AllowedIn(granted'[v], granted'[v][i],
                              granted'[v][i] + RATE_LIMIT_WINDOW)
                        <= MAX_REQUESTS_PER_MINUTE
              /\ ~ret.is_allowed =>
                    /\ granted' = granted
                    /\ \A i \in DOMAIN user_requests'[u] :
                          \E j \in DOMAIN user_requests[u] :
                              user_requests'[u][i] = user_requests[u][j]
                    /\ NextAllowedAt(user_requests'[u], rl_now) =
                          NextAllowedAt(user_requests[u], rl_now)
              /\ ret.remaining =
                    MAX_REQUESTS_PER_MINUTE
                    - AllowedIn(granted'[u], rl_now - RATE_LIMIT_WINDOW + 1, rl_now + 1)
              /\ \A v \in Users \ {u} :
                    /\ user_requests'[v] = user_requests[v]
                    /\ granted'[v] = granted[v]]_vars

\* A user was allowed twice, denied, and allowed again once the window of
\* the first request had passed, while the other user was served as well.
C27_Witness ==
    /\ f_in = [fn |-> "check_rate_limit", user_id |-> "U1"]
    /\ f_out = [some |-> [is_allowed |-> FALSE, remaining |-> 0]]
    /\ granted["U1"] = <<0, 30, 60, 90>>
    /\ granted["U2"] = <<30>>
    /\ rl_now = 90

(***************************************************************************)
(* Slack text: a message text is a sequence of tokens (words, single       *)
(* spaces, and the markup tokens the regular expressions of                *)
(* clean_slack_text match)                                                 *)
(***************************************************************************)
\* Lines 80-86 of utils.py on one token: a user mention becomes empty, a
\* channel mention its name, a link its url; anything else is kept.
CleanToken(tok) ==
    CASE tok = "<@U1>" -> <<>>
      [] tok = "<#C1|general>" -> <<"general">>
      [] tok = "<https://x.com|x>" -> <<"https://x.com">>
      [] OTHER -> <<tok>>

\* Line 89: every run of whitespace becomes one space.
RECURSIVE CollapseSpaces(_)
CollapseSpaces(text) ==
    IF Len(text) < 2 THEN text
    ELSE IF IsSpace(text[1]) /\ IsSpace(text[2]) THEN CollapseSpaces(Tail(text))
    ELSE <<text[1]>> \o CollapseSpaces(Tail(text))

RECURSIVE CleanTokens(_)
CleanTokens(text) ==
    IF text = <<>> THEN <<>> ELSE CleanToken(Head(text)) \o CleanTokens(Tail(text))

\* clean_slack_text(text), utils.py:58-94.
CleanSlackText(text) == Strip(CollapseSpaces(CleanTokens(text)))

\* `a or b` for values that are None, a string, or something truthy.
Or(a, b) == IF a = None \/ a = "" THEN b ELSE a

\* datetime.fromtimestamp(float(ts)).strftime(...): a function of ts.
FormattedTime(ts) == IF ts = None \/ ts = "" THEN "Unknown" ELSE "at " \o ts

\* extract_message_metadata(message, user_name), utils.py:138-172.
ExtractMessageMetadata(message, user_name) ==
    [user |-> Or(user_name, Get(message, "user", "Unknown")),
     user_id |-> Get(message, "user", "Unknown"),
     timestamp |-> Get(message, "ts", ""),
     formatted_time |-> FormattedTime(Get(message, "ts", "")),
     channel |-> Get(message, "channel", "Unknown"),
     thread_ts |-> Get(message, "thread_ts", ""),
     message_type |-> Get(message, "type", "message"),
     subtype |-> Get(message, "subtype", "normal")]

(***************************************************************************)
(* MessageProcessor.create_documents                                       *)
(***************************************************************************)
\* The messages of the model: two standalone messages, a thread of a parent
\* and two replies, and a second thread whose parent has no thread_ts of
\* its own and whose only reply is a bare mention (empty once cleaned).
Standalone1 ==
    [text |-> <<"hello">>, user |-> "U1", user_name |-> "Alice", ts |-> "1.0",
     channel |-> "C1", channel_name |-> "general"]
Standalone2 ==
    [text |-> <<"<@U1>", " ", "see", " ", " ", "<#C1|general>">>, user |-> "U2",
     user_name |-> "Bob", ts |-> "2.0", channel |-> "C1",
     channel_name |-> "general"]
Parent1 ==
    [text |-> <<"question">>, user |-> "U1", user_name |-> "Alice", ts |-> "3.0",
     thread_ts |-> "3.0", reply_count |-> 2, channel |-> "C1",
     channel_name |-> "general"]
Reply1a ==
    [text |-> <<"first">>, user |-> "U2", user_name |-> "Bob", ts |-> "4.0",
     thread_ts |-> "3.0", parent_ts |-> "3.0", is_thread_reply |-> TRUE,
     channel |-> "C1", channel_name |-> "general"]
Reply1b ==
    [text |-> <<"second">>, user |-> "U3", ts |-> "5.0",
     thread_ts |-> "3.0", parent_ts |-> "3.0", is_thread_reply |-> TRUE,
     channel |-> "C1", channel_name |-> "general"]
Parent2 ==
    [text |-> <<"<https://x.com|x>">>, user |-> "U3", user_name |-> "Carol",
     ts |-> "6.0", reply_count |-> 1, channel |-> "C2",
     channel_name |-> "random"]
Reply2a ==
    [text |-> <<"<@U1>", " ">>, user |-> "U1", user_name |-> "Alice", ts |-> "7.0",
     thread_ts |-> "6.0", parent_ts |-> "6.0", is_thread_reply |-> TRUE,
     channel |-> "C2", channel_name |-> "random"]

MessagePool ==
    {Standalone1, Standalone2, Parent1, Reply1a, Reply1b, Parent2, Reply2a}

\* create_documents is given at most MaxMessages messages.
MaxMessages == 5

\* Lists of distinct elements of `pool`, of length at most n.
RECURSIVE ListsOf(_, _)
ListsOf(pool, n) ==
    IF n = 0 THEN {<<>>}
    ELSE LET shorter == ListsOf(pool, n - 1)
             longest == {l \in shorter : Len(l) = n - 1}
         IN  shorter \cup
             UNION { { Append(l, x) : x \in {y \in pool : \A i \in DOMAIN l : l[i] # y} }
                     : l \in longest }

MessageLists == ListsOf(MessagePool, MaxMessages)

\* thread_groups is a dict, kept in insertion order: a list of keyed lists.
Group(key, msgs) == [key |-> key, msgs |-> msgs]
HasKey(groups, key) == \E i \in DOMAIN groups : groups[i].key = key

\* thread_groups[key].append(msg), the group created if absent (lines 112-117).
AppendTo(groups, key, msg) ==
    LET all == IF HasKey(groups, key) THEN groups
               ELSE Append(groups, Group(key, <<>>))
    IN  [i \in DOMAIN all |->
            IF all[i].key = key THEN Group(key, Append(all[i].msgs, msg))
            ELSE all[i]]

\* InsertFirst with the parent appended like a reply.
InsertLast(groups, key, msg) == AppendTo(groups, key, msg)

\* thread_groups[key].insert(0, msg), the group created if absent (lines 118-123).
InsertFirst(groups, key, msg) ==
    LET all == IF HasKey(groups, key) THEN groups
               ELSE Append(groups, Group(key, <<>>))
    IN  [i \in DOMAIN all |->
            IF all[i].key = key THEN Group(key, <<msg>> \o all[i].msgs)
            ELSE all[i]]

\* msg.get('user_name', msg.get('user', 'Unknown'))
UserName(msg) == Get(msg, "user_name", Get(msg, "user", "Unknown"))

\* The loop the processor is in after finishing one, given what is left to do.
PhaseAfter(phase, standalone, groups) ==
    IF phase = "group" /\ standalone # <<>> THEN "standalone"
    ELSE IF phase \in {"group", "standalone"} /\ groups # <<>> THEN "threads"
    ELSE "done"

\* create_documents(messages) is called: lines 106-109.
ProcStart(messages) ==
    /\ p_pc = "idle"
    /\ UNCHANGED <<cbVars, retryVars, searchVars, askVars, workerVars, fnVars>>
    /\ p_messages' = messages
    /\ p_i' = 1
    /\ thread_groups' = <<>>
    /\ standalone_messages' = <<>>
    /\ p_documents' = <<>>
    /\ p_pc' = IF messages = <<>> THEN "done" ELSE "group"

ProcStartSome == \E messages \in MessageLists : ProcStart(messages)

\* GroupStep with line 118 an `if` of its own: a reply is also standalone.
GroupStepRepliesAlsoStandalone ==
    LET msg == p_messages[p_i]
        is_reply == Get(msg, "is_thread_reply", FALSE)
        is_parent == Get(msg, "reply_count", 0) > 0
    IN
    /\ p_pc = "group"
    /\ UNCHANGED <<cbVars, retryVars, searchVars, askVars, workerVars, fnVars>>
    /\ UNCHANGED <<p_messages, p_documents>>
    /\ thread_groups' =
          LET replied == IF is_reply
                         THEN AppendTo(thread_groups, Get(msg, "parent_ts", None), msg)
                         ELSE thread_groups
          IN  IF is_parent
              THEN InsertFirst(replied,
                               Or(Get(msg, "thread_ts", None), Get(msg, "ts", None)), msg)
              ELSE replied
    /\ standalone_messages' =
          IF is_parent THEN standalone_messages ELSE Append(standalone_messages, msg)
    /\ IF p_i < Len(p_messages)
       THEN p_i' = p_i + 1 /\ UNCHANGED p_pc
       ELSE p_i' = 1 /\ p_pc' = PhaseAfter("group", standalone_messages', thread_groups')

\* One iteration of the loop of lines 111-126: the message is a thread
\* reply, a thread parent, or standalone.
GroupStep ==
    LET msg == p_messages[p_i] IN
    /\ p_pc = "group"
    /\ UNCHANGED <<cbVars, retryVars, searchVars, askVars, workerVars, fnVars>>
    /\ UNCHANGED <<p_messages, p_documents>>
    /\ IF Get(msg, "is_thread_reply", FALSE)
       THEN /\ thread_groups' = AppendTo(thread_groups, Get(msg, "parent_ts", None), msg)
            /\ UNCHANGED standalone_messages
       ELSE IF Get(msg, "reply_count", 0) > 0
       THEN /\ thread_groups' =
                  InsertFirst(thread_groups,
                              Or(Get(msg, "thread_ts", None), Get(msg, "ts", None)), msg)
            /\ UNCHANGED standalone_messages
       ELSE /\ standalone_messages' = Append(standalone_messages, msg)
            /\ UNCHANGED thread_groups
    /\ IF p_i < Len(p_messages)
       THEN p_i' = p_i + 1 /\ UNCHANGED p_pc
       ELSE p_i' = 1 /\ p_pc' = PhaseAfter("group", standalone_messages', thread_groups')

\* One iteration of the loop of lines 129-141: the unit of a standalone
\* message, none if its cleaned text is empty.
StandaloneStep ==
    LET msg == standalone_messages[p_i]
        text == CleanSlackText(Get(msg, "text", <<>>))
    IN
    /\ p_pc = "standalone"
    /\ UNCHANGED <<cbVars, retryVars, searchVars, askVars, workerVars, fnVars>>
    /\ UNCHANGED <<p_messages, thread_groups, standalone_messages>>
    /\ p_documents' =
          IF text = <<>> THEN p_documents
          ELSE Append(p_documents, Doc(text, ExtractMessageMetadata(msg, UserName(msg))))
    /\ IF p_i < Len(standalone_messages)
       THEN p_i' = p_i + 1 /\ UNCHANGED p_pc
       ELSE p_i' = 1 /\ p_pc' = PhaseAfter("standalone", standalone_messages, thread_groups)

\* Lines 152-165: the segments of a thread's messages from position i on;
\* a message whose cleaned text is empty has no segment.
RECURSIVE ThreadParts(_, _)
ThreadParts(thread_messages, i) ==
    IF i > Len(thread_messages) THEN <<>>
    ELSE LET msg == thread_messages[i]
             text == CleanSlackText(Get(msg, "text", <<>>))
             part == IF i = 1
                     THEN <<"**Thread started by ", UserName(msg), ":**\n">> \o text
                     ELSE <<"\n**Reply by ", UserName(msg), ":**\n">> \o text
         IN  (IF text = <<>> THEN <<>> ELSE <<part>>)
                 \o ThreadParts(thread_messages, i + 1)

\* sep.join(parts)
RECURSIVE Join(_, _)
Join(sep, parts) ==
    IF parts = <<>> THEN <<>>
    ELSE IF Len(parts) = 1 THEN parts[1]
    ELSE parts[1] \o sep \o Join(sep, Tail(parts))

\* Lines 144-183 for one thread group: its unit, or nothing when the
\* first message of the group has no cleaned text (parent_msg stays None).
ThreadUnits(thread_messages) ==
    LET parts == ThreadParts(thread_messages, 1)
        parent_msg == thread_messages[1]
    IN  IF parts = <<>> \/ CleanSlackText(Get(parent_msg, "text", <<>>)) = <<>>
        THEN <<>>
        ELSE << Doc(Join(<<"\n">>, parts),
                    ("is_thread" :> TRUE) @@
                    ("reply_count" :> Len(thread_messages) - 1) @@
                    ExtractMessageMetadata(parent_msg, UserName(parent_msg))) >>

\* One iteration of the loop of lines 144-183.
ThreadStep ==
    /\ p_pc = "threads"
    /\ UNCHANGED <<cbVars, retryVars, searchVars, askVars, workerVars, fnVars>>
    /\ UNCHANGED <<p_messages, thread_groups, standalone_messages>>
    /\ p_documents' = p_documents \o ThreadUnits(thread_groups[p_i].msgs)
    /\ IF p_i < Len(thread_groups)
       THEN p_i' = p_i + 1 /\ UNCHANGED p_pc
       ELSE p_i' = 1 /\ p_pc' = "done"

NextProc ==
    \/ ProcStartSome
    \/ GroupStep
    \/ StandaloneStep
    \/ ThreadStep

(***************************************************************************)
(* Properties of create_documents (checked under SpecProc)                 *)
(***************************************************************************)
\* The three categories of a message.
IsReply(m) == Get(m, "is_thread_reply", FALSE)
IsParent(m) == ~IsReply(m) /\ Get(m, "reply_count", 0) > 0
IsStandalone(m) == ~IsReply(m) /\ ~IsParent(m)

\* The thread a reply or a parent belongs to: its thread-root timestamp.
ThreadOf(m) ==
    IF IsReply(m) THEN Get(m, "parent_ts", None)
    ELSE Or(Get(m, "thread_ts", None), Get(m, "ts", None))

Blank(m) == CleanSlackText(Get(m, "text", <<>>)) = <<>>

\* Where create_documents has put message m: positions in the standalone
\* list and positions in the thread groups.
Placements(m) ==
    {<<"standalone", 0, j>> : j \in {j \in DOMAIN standalone_messages :
                                        standalone_messages[j] = m}}
    \cup UNION { {<<"thread", g, j>> : j \in {j \in DOMAIN thread_groups[g].msgs :
                                                 thread_groups[g].msgs[j] = m}}
                 : g \in DOMAIN thread_groups }

\* Every message is in exactly one category, and in the place of that category.
OneCategoryEach ==
    \A i \in DOMAIN p_messages :
        LET m == p_messages[i] IN
        /\ Cardinality({c \in {"reply", "parent", "standalone"} :
                          \/ c = "reply" /\ IsReply(m)
                          \/ c = "parent" /\ IsParent(m)
                          \/ c = "standalone" /\ IsStandalone(m)}) = 1
        /\ Cardinality(Placements(m)) = 1
        /\ \A pl \in Placements(m) :
              IF IsStandalone(m) THEN pl[1] = "standalone"
              ELSE /\ pl[1] = "thread"
                   /\ thread_groups[pl[2]].key = ThreadOf(m)

Grouped == p_pc \in {"standalone", "threads", "done"}

\* The messages of one thread among the input, in arrival order.
RepliesOf(key) == SelectSeq(p_messages, LAMBDA m : IsReply(m) /\ ThreadOf(m) = key)
ParentsOf(key) == SelectSeq(p_messages, LAMBDA m : IsParent(m) /\ ThreadOf(m) = key)

\* C15: whatever the arrival order of a thread's messages, the group keyed
\* by the thread-root timestamp holds the parent at index 0 followed by the
\* thread's replies in their arrival order, there is one group per thread,
\* and no unit holds the text of messages of two different threads.
C15_ParentFirst ==
    Grouped =>
        /\ \A g \in DOMAIN thread_groups :
              LET key == thread_groups[g].key IN
              /\ thread_groups[g].msgs = ParentsOf(key) \o RepliesOf(key)
              /\ \A h \in DOMAIN thread_groups : thread_groups[h].key = key => h = g
        /\ \A d \in DOMAIN p_documents :
              \A i, j \in DOMAIN p_messages :
                 LET m == p_messages[i]
                     n == p_messages[j]
                     has(x) == ~Blank(x) /\ Contains(CleanSlackText(x.text),
                                                     p_documents[d].page_content)
                 IN  (~IsStandalone(m) /\ has(m) /\ has(n)) =>
                         ~IsStandalone(n) /\ ThreadOf(n) = ThreadOf(m)

\* The parent of a thread arrived between its two replies, after the reply
\* of another thread, and heads its group and its unit.
C15_Witness ==
    /\ p_pc = "done"
    /\ p_messages = <<Reply2a, Reply1a, Parent1, Reply1b, Parent2>>
    /\ Len(thread_groups) = 2
    /\ thread_groups[2].msgs = <<Parent1, Reply1a, Reply1b>>
    /\ thread_groups[1].msgs = <<Parent2, Reply2a>>
    /\ Len(p_documents) = 2

\* The units made from message m: those carrying its timestamp.
UnitsOf(m) == {d \in DOMAIN p_documents : p_documents[d].metadata.timestamp = m.ts}

\* C16: a parent with a positive reply count none of whose replies is among
\* the messages yields exactly one unit, shaped like a standalone one: its
\* text is the parent's cleaned text, without a 'Thread started by' prefix,
\* and it is not marked is_thread.
C16_LoneParentIsStandalone ==
    p_pc = "done" =>
        \A i \in DOMAIN p_messages :
            LET m == p_messages[i] IN
            (IsParent(m) /\ RepliesOf(ThreadOf(m)) = <<>>) =>
                /\ Cardinality(UnitsOf(m)) = 1
                /\ \A d \in UnitsOf(m) :
                      /\ p_documents[d].page_content = CleanSlackText(m.text)
                      /\ ~Get(p_documents[d].metadata, "is_thread", FALSE)

\* The segments of a thread unit, as the claim words them.
StartedBy(m) == <<"**Thread started by ", UserName(m), ":**\n">> \o CleanSlackText(m.text)
ReplyBy(m) == <<"\n**Reply by ", UserName(m), ":**\n">> \o CleanSlackText(m.text)

\* Number of 'Reply by' segments in a text.
ReplySegments(text) == Cardinality({i \in DOMAIN text : text[i] = "\n**Reply by "})

\* The text made of the segment of the head and of the segments of `replies`.
ThreadText(head, replies) ==
    Join(<<"\n">>, <<StartedBy(head)>> \o [i \in DOMAIN replies |-> ReplyBy(replies[i])])

\* C17 as stated: a thread group of size greater than 1 yields one unit
\* whose text is the 'Thread started by' segment of its first message
\* followed by one 'Reply by' segment per reply, with is_thread true and
\* reply_count = group size - 1 = the number of reply segments of the text.
C17_ThreadUnit ==
    p_pc = "done" =>
        \A g \in DOMAIN thread_groups :
            LET msgs == thread_groups[g].msgs IN
            Len(msgs) > 1 =>
                /\ Cardinality(UnitsOf(msgs[1])) = 1
                /\ \A d \in UnitsOf(msgs[1]) :
                      LET unit == p_documents[d] IN
                      /\ unit.page_content = ThreadText(msgs[1], Tail(msgs))
                      /\ Get(unit.metadata, "is_thread", FALSE)
                      /\ Get(unit.metadata, "reply_count", 0) = Len(msgs) - 1
                      /\ ReplySegments(unit.page_content) = Len(msgs) - 1

\* C18: every unit carries in its metadata the channel name of its source
\* message, under the key the index's channel filter reads (channel_name).
C18_UnitHasChannelName ==
    \A d \in DOMAIN p_documents :
        /\ "channel_name" \in DOMAIN p_documents[d].metadata
        /\ \E i \in DOMAIN p_messages :
              /\ p_messages[i].ts = p_documents[d].metadata.timestamp
              /\ p_messages[i].channel_name = p_documents[d].metadata.channel_name

(***************************************************************************)
(* MessageProcessor.process_all: filter_messages, then create_documents    *)
(***************************************************************************)
\* The number of characters of a token of the messages below.
TokenChars(tok) ==
    CASE tok = " " -> 1
      [] tok = "deploy" -> 6
      [] tok = "rollback" -> 8
      [] tok = "finished" -> 8
      [] tok = "confirmed" -> 9
      [] tok = "working" -> 7
      [] tok = "schedule" -> 8
      [] tok = "published" -> 9
      [] tok = "thanks" -> 6
      [] tok = "everyone" -> 8
      [] OTHER -> 0

RECURSIVE TextChars(_)
TextChars(text) ==
    IF text = <<>> THEN 0 ELSE TokenChars(Head(text)) + TextChars(Tail(text))

\* Lines 122-126 of utils.py.
system_subtypes ==
    {"channel_join", "channel_leave", "channel_topic", "channel_purpose",
     "channel_name", "channel_archive", "channel_unarchive", "pinned_item",
     "unpinned_item"}

\* is_valid_message(message), utils.py:97-135.
IsValidMessage(message) ==
    /\ "text" \in DOMAIN message
    /\ message.text # <<>>
    /\ "bot_id" \notin DOMAIN message
    /\ Get(message, "subtype", None) \notin system_subtypes
    /\ TextChars(CleanSlackText(message.text)) >= 10

\* filter_messages(messages), lines 78-92.
FilterMessages(messages) == SelectSeq(messages, IsValidMessage)

\* What the fetch script has stored: a thread whose parent is too short to
\* be valid, a thread started by a bot, a thread with a valid parent, and
\* a message outside any thread.
ShortParent ==
    [text |-> <<"deploy">>, user |-> "U1", user_name |-> "Alice", ts |-> "10.0",
     thread_ts |-> "10.0", reply_count |-> 2, channel |-> "C1",
     channel_name |-> "general"]
ShortParentReplyA ==
    [text |-> <<"rollback", " ", "finished">>, user |-> "U2", user_name |-> "Bob",
     ts |-> "11.0", thread_ts |-> "10.0", parent_ts |-> "10.0",
     is_thread_reply |-> TRUE, channel |-> "C1", channel_name |-> "general"]
ShortParentReplyB ==
    [text |-> <<"confirmed", " ", "working">>, user |-> "U3", user_name |-> "Carol",
     ts |-> "12.0", thread_ts |-> "10.0", parent_ts |-> "10.0",
     is_thread_reply |-> TRUE, channel |-> "C1", channel_name |-> "general"]
BotParent ==
    [text |-> <<"schedule", " ", "published">>, user |-> "U9", bot_id |-> "B1",
     ts |-> "20.0", thread_ts |-> "20.0", reply_count |-> 1, channel |-> "C1",
     channel_name |-> "general"]
BotParentReply ==
    [text |-> <<"thanks", " ", "everyone">>, user |-> "U1", user_name |-> "Alice",
     ts |-> "21.0", thread_ts |-> "20.0", parent_ts |-> "20.0",
     is_thread_reply |-> TRUE, channel |-> "C1", channel_name |-> "general"]
ValidParent ==
    [text |-> <<"schedule", " ", "confirmed">>, user |-> "U2", user_name |-> "Bob",
     ts |-> "30.0", thread_ts |-> "30.0", reply_count |-> 1, channel |-> "C1",
     channel_name |-> "general"]
ValidParentReply ==
    [text |-> <<"working", " ", "thanks">>, user |-> "U3", user_name |-> "Carol",
     ts |-> "31.0", thread_ts |-> "30.0", parent_ts |-> "30.0",
     is_thread_reply |-> TRUE, channel |-> "C1", channel_name |-> "general"]

StoredStandalone ==
    [text |-> <<"<@U1>", " ", "published", " ", "everyone">>, user |-> "U1",
     user_name |-> "Alice", ts |-> "40.0", channel |-> "C1",
     channel_name |-> "general"]

StoredPool ==
    {ShortParent, ShortParentReplyA, ShortParentReplyB, BotParent, BotParentReply,
     ValidParent, ValidParentReply, StoredStandalone}

MaxStored == 4
StoredLists == ListsOf(StoredPool, MaxStored)

\* process_all, lines 229-234: create_documents is called on the messages
\* that filter_messages keeps.
ProcessAll(stored) == ProcStart(FilterMessages(stored))

ProcessAllSome == \E stored \in StoredLists : ProcessAll(stored)

NextPipeline ==
    \/ ProcessAllSome
    \/ GroupStep
    \/ StandaloneStep
    \/ ThreadStep

\* C29: in every thread-shaped unit the pipeline emits, the metadata and
\* the 'Thread started by' segment come from the parent of the thread, a
\* message that is not a reply and whose timestamp is the key of the
\* group, and never from a reply.
C29_HeadIsParent ==
    \A d \in DOMAIN p_documents :
        LET unit == p_documents[d] IN
        Get(unit.metadata, "is_thread", FALSE) =>
            \E i \in DOMAIN p_messages :
                LET m == p_messages[i] IN
                /\ m.ts = unit.metadata.timestamp
                /\ ~IsReply(m)
                /\ \E g \in DOMAIN thread_groups :
                      /\ thread_groups[g].key = m.ts
                      /\ thread_groups[g].msgs[1] = m
                /\ SubSeq(unit.page_content, 1, 2) =
                      <<"**Thread started by ", UserName(m)>>

(***************************************************************************)
(* Specifications                                                          *)
(***************************************************************************)
\* MessageProcessor and the workers before they have done anything.
IdleProc ==
    /\ p_pc = "idle"
    /\ p_messages = <<>>
    /\ p_i = 0
    /\ thread_groups = <<>>
    /\ standalone_messages = <<>>
    /\ p_documents = <<>>

IdleWorkers ==
    /\ w_pc = <<>>
    /\ w_loaded = <<>>
    /\ w_recorded = 0

\* No function has been called.
IdleFn ==
    /\ f_in = [fn |-> "none"]
    /\ f_out = [none |-> TRUE]
    /\ IdleRate

Idle == IdleProc /\ IdleWorkers /\ IdleFn

InitOfBreaker == InitBreaker /\ IdleRetry /\ InitStore /\ InitAsk /\ Idle
SpecBreaker == InitOfBreaker /\ [][NextBreaker]_vars

InitOfWorkers ==
    /\ InitBreaker /\ IdleRetry /\ InitStore /\ InitAsk /\ IdleProc /\ IdleFn
    /\ InitWorkers
SpecWorkers == InitOfWorkers /\ [][NextWorkers]_vars

InitOfSearch == IdleBreaker /\ IdleRetry /\ InitStore /\ InitAsk /\ Idle
SpecSearch == InitOfSearch /\ [][NextSearch]_vars

InitOfStore ==
    /\ IdleBreaker /\ IdleRetry /\ InitAsk /\ Idle
    /\ \E files \in SavedFiles : NewStore(files)
SpecStore == InitOfStore /\ [][NextStore]_vars

InitOfProc == IdleBreaker /\ IdleRetry /\ InitStore /\ InitAsk /\ Idle
SpecProc == InitOfProc /\ [][NextProc]_vars

InitOfAsk == IdleBreaker /\ IdleRetry /\ InitStore /\ InitAsk /\ Idle
SpecAsk == InitOfAsk /\ [][NextAsk]_vars

InitOfSlack == IdleBreaker /\ InitSlack /\ InitStore /\ InitAsk /\ Idle
SpecSlack == InitOfSlack /\ [][NextSlack]_vars

InitOfConfidence ==
    /\ IdleBreaker /\ IdleRetry /\ InitStore /\ InitAsk /\ IdleProc /\ IdleWorkers
    /\ InitConfidence
SpecConfidence == InitOfConfidence /\ [][NextConfidence]_vars

InitOfDelay ==
    /\ IdleBreaker /\ IdleRetry /\ InitStore /\ InitAsk /\ IdleProc /\ IdleWorkers
    /\ InitDelay
SpecDelay == InitOfDelay /\ [][NextDelay]_vars

InitOfRate ==
    /\ IdleBreaker /\ IdleRetry /\ InitStore /\ InitAsk /\ IdleProc /\ IdleWorkers
    /\ InitRate
SpecRate == InitOfRate /\ [][NextRate]_vars

InitOfPipeline == IdleBreaker /\ IdleRetry /\ InitStore /\ InitAsk /\ Idle
SpecPipeline == InitOfPipeline /\ [][NextPipeline]_vars

InitOfRetry == IdleBreaker /\ InitRetry /\ InitStore /\ InitAsk /\ Idle
SpecRetry == InitOfRetry /\ [][NextRetry]_vars

====
